---- MODULE Spec2Model ----
(***************************************************************************)
(* A model of the electrode-matrix firmware: ArrayDriver (electrode map,   *)
(* matrix actuator, sequence engine) and UartCommandHandler (line          *)
(* protocol).  Texts (mapping files, command lines) are sequences of       *)
(* one-character strings; the C string functions the code uses (strstr,    *)
(* strchr, strncmp, atoi) are modelled on those sequences, position 0      *)
(* standing for the null pointer and the position past the end for NUL.    *)
(***************************************************************************)
EXTENDS Integers, Sequences, FiniteSets, TLC

\* ------------------------------------------------------------ constants
NUM_ROWS == 10
NUM_COLS == 14
NUM_ELECTRODES == 140
MAX_STEPS == 256
UART_CMD_BUFFER_SIZE == 2048

Rows == 0 .. (NUM_ROWS - 1)
Cols == 0 .. (NUM_COLS - 1)
UInt8 == 0 .. 255

\* ------------------------------------------------------------ bounds
\* How many entries the partial mapping files hold.
PartialKeys == 3
\* How many ArrayDriver calls a run makes.
MaxCalls == 3
\* How many cycles a sequence given to executeSequence runs for.
MaxCycles == 2
\* lines sent and sequences run per behaviour of the command handler
MaxLines == 1

\* ------------------------------------------------------------ C strings
Min(S) == CHOOSE x \in S : \A y \in S : x <= y

Max(S) == CHOOSE x \in S : \A y \in S : x >= y

\* The function f itself, its values computed once rather than on every use.
Tabulated(f) == IF f = f THEN f ELSE f

DigitChars == <<"0", "1", "2", "3", "4", "5", "6", "7", "8", "9">>

isdigit(c) == \E i \in 1 .. 10 : DigitChars[i] = c

DigitVal(c) == (CHOOSE i \in 1 .. 10 : DigitChars[i] = c) - 1

isspace(c) == c \in {" ", "\t", "\n", "\r"}

\* The character at position p of the C string s, "NUL" past its end.
At(s, p) == IF p >= 1 /\ p <= Len(s) THEN s[p] ELSE "NUL"

\* snprintf("%d") of a non-negative integer.
RECURSIVE Itoa(_)
Itoa(n) == IF n < 10 THEN <<DigitChars[n + 1]>>
           ELSE Itoa(n \div 10) \o <<DigitChars[(n % 10) + 1]>>

\* strstr(s + (from-1), pat): position of the first occurrence, 0 if none.
strstr(s, from, pat) ==
    LET hits == {i \in from .. (Len(s) - Len(pat) + 1) :
                    \A k \in 1 .. Len(pat) : s[i + k - 1] = pat[k]}
    IN  IF hits = {} THEN 0 ELSE Min(hits)

\* The positions of character ch in s.
Positions(s, ch) == {i \in 1 .. Len(s) : s[i] = ch}

\* strstr for a pattern whose first character is ch, given at == Positions(s, ch):
\* the same result as strstr(s, from, pat), found without rescanning the text.
strstrAt(s, at, from, pat) ==
    LET hits == {i \in at : /\ i >= from
                            /\ i + Len(pat) - 1 <= Len(s)
                            /\ \A k \in 1 .. Len(pat) : s[i + k - 1] = pat[k]}
    IN  IF hits = {} THEN 0 ELSE Min(hits)

\* strchr given at == Positions(s, ch).
strchrAt(at, from) ==
    LET hits == {i \in at : i >= from}
    IN  IF hits = {} THEN 0 ELSE Min(hits)

\* strchr(s + (from-1), ch): position of the first ch, 0 if none.
strchr(s, from, ch) ==
    LET hits == {i \in from .. Len(s) : s[i] = ch}
    IN  IF hits = {} THEN 0 ELSE Min(hits)

\* strncmp(s + (p-1), lit, Len(lit)) == 0
strncmpEq(s, p, lit) == \A k \in 1 .. Len(lit) : At(s, p + k - 1) = lit[k]

RECURSIVE SkipSpace(_, _)
SkipSpace(s, p) == IF isspace(At(s, p)) THEN SkipSpace(s, p + 1) ELSE p

RECURSIVE DigitsValue(_, _, _)
DigitsValue(s, p, acc) ==
    IF isdigit(At(s, p)) THEN DigitsValue(s, p + 1, acc * 10 + DigitVal(s[p]))
    ELSE acc

\* ------------------------------------------------------------ JSON scanning
\* ArrayDriver::parseJSONInt; p = 0 is the null pointer.
parseJSONInt(s, p) ==
    IF p = 0 THEN 0
    ELSE LET q == SkipSpace(s, p)
         IN  IF At(s, q) = "-" THEN 0 - DigitsValue(s, q + 1, 0)
             ELSE DigitsValue(s, q, 0)

\* ArrayDriver::findJSONValue(json + (from-1), key): the search string is the
\* key between two double quotes; the result is the position after the colon
\* and the white space that follows it, 0 for nullptr.  quotes and colons are
\* Positions(s, "\"") and Positions(s, ":").
findJSONValue(s, quotes, colons, from, key) ==
    LET searchStr == <<"\"">> \o key \o <<"\"">>
        keyPos == strstrAt(s, quotes, from, searchStr)
        colon == IF keyPos = 0 THEN 0 ELSE strchrAt(colons, keyPos)
    IN  IF keyPos = 0 \/ colon = 0 THEN 0 ELSE SkipSpace(s, colon + 1)

DefaultMapping(i) == [row |-> i \div NUM_COLS, col |-> i % NUM_COLS]

\* ArrayDriver::parseElectrodeMapJSON, the scan: whether the "mapping" object
\* is found, and for each electrode 1..140 the external pin the loop stores
\* for it, 0 where it stores nothing (key or value not found, or the pin not
\* in 1..140).  The value is looked up with the key minus its leading quote.
ScanElectrodeMapJSON(jsonData) ==
    LET mappingStart == strstr(jsonData, 1, <<"\"", "m", "a", "p", "p", "i", "n", "g", "\"">>)
        openBrace == IF mappingStart = 0 THEN 0 ELSE strchr(jsonData, mappingStart, "{")
        quotes == Positions(jsonData, "\"")
        colons == Positions(jsonData, ":")
        Pin(electrode) ==
            LET keyStr == <<"\"">> \o Itoa(electrode) \o <<"\"">>
                keyPos == strstrAt(jsonData, quotes, openBrace, keyStr)
                valuePos == IF keyPos = 0 THEN 0
                            ELSE findJSONValue(jsonData, quotes, colons, keyPos, Tail(keyStr))
                pciePin == parseJSONInt(jsonData, valuePos)
            IN  IF keyPos # 0 /\ valuePos # 0 /\ pciePin > 0 /\ pciePin <= NUM_ELECTRODES
                THEN pciePin ELSE 0
    IN  IF mappingStart = 0 \/ openBrace = 0
        THEN [ok |-> FALSE, pin |-> [e \in 1 .. NUM_ELECTRODES |-> 0]]
        ELSE [ok |-> TRUE, pin |-> Tabulated([e \in 1 .. NUM_ELECTRODES |-> Pin(e)])]

\* ArrayDriver::parseElectrodeMapJSON, the stores: an entry with a pin gets
\* the pin encoded as a temporary (row, col); every other entry of the
\* electrodeMap array is left as it was.
parseElectrodeMapJSON(scan, map0) ==
    IF ~scan.ok THEN [ok |-> FALSE, map |-> map0]
    ELSE [ok |-> TRUE,
          map |-> [i \in 0 .. (NUM_ELECTRODES - 1) |->
                     IF scan.pin[i + 1] # 0
                     THEN [row |-> (scan.pin[i + 1] - 1) \div NUM_COLS,
                           col |-> (scan.pin[i + 1] - 1) % NUM_COLS]
                     ELSE map0[i]]]

\* ArrayDriver::parsePinMapJSON, the scan: whether the "electrodes" object is
\* found, and the pcieToRow / pcieToCol tables: zeroed, then one (row, col)
\* stored per "row,col" key found with a pin in 1..140, in row-major order
\* (the last cell naming a pin wins).
ScanPinMapJSON(jsonData) ==
    LET electrodesStart == strstr(jsonData, 1,
            <<"\"", "e", "l", "e", "c", "t", "r", "o", "d", "e", "s", "\"">>)
        openBrace == IF electrodesStart = 0 THEN 0 ELSE strchr(jsonData, electrodesStart, "{")
        quotes == Positions(jsonData, "\"")
        colons == Positions(jsonData, ":")
        PinOfCell(cell) ==
            LET keyStr == <<"\"">> \o Itoa(cell \div NUM_COLS) \o <<",">>
                          \o Itoa(cell % NUM_COLS) \o <<"\"">>
                keyPos == strstrAt(jsonData, quotes, openBrace, keyStr)
                colon == IF keyPos = 0 THEN 0 ELSE strchrAt(colons, keyPos)
                pciePin == IF colon = 0 THEN 0 ELSE parseJSONInt(jsonData, colon + 1)
            IN  IF keyPos # 0 /\ colon # 0 /\ pciePin > 0 /\ pciePin <= NUM_ELECTRODES
                THEN pciePin ELSE 0
        pins == Tabulated([cell \in 0 .. (NUM_ELECTRODES - 1) |-> PinOfCell(cell)])
        pcie == [i \in 0 .. (NUM_ELECTRODES - 1) |->
                    LET cells == {cell \in 0 .. (NUM_ELECTRODES - 1) : pins[cell] = i + 1}
                    IN  IF cells = {} THEN [row |-> 0, col |-> 0]
                        ELSE [row |-> Max(cells) \div NUM_COLS, col |-> Max(cells) % NUM_COLS]]
    IN  IF electrodesStart = 0 \/ openBrace = 0
        THEN [ok |-> FALSE, pcie |-> <<>>]
        ELSE [ok |-> TRUE, pcie |-> Tabulated(pcie)]

\* ArrayDriver::parsePinMapJSON, the final loop: every electrodeMap entry
\* whose temporary (row, col) encodes a pin in 1..140 is replaced by that
\* pin's table entry; any other entry is left as it was.
parsePinMapJSON(scan, map0) ==
    IF ~scan.ok THEN [ok |-> FALSE, map |-> map0]
    ELSE [ok |-> TRUE,
          map |-> [i \in 0 .. (NUM_ELECTRODES - 1) |->
                     LET pciePin == (map0[i].row * NUM_COLS + map0[i].col + 1) % 65536
                     IN  IF pciePin > 0 /\ pciePin <= NUM_ELECTRODES
                         THEN scan.pcie[pciePin - 1]
                         ELSE map0[i]]]

\* loadElectrodeMap / loadPinMap: readFile fails on an absent file.
loadElectrodeMap(file, map0) ==
    IF ~file.exists THEN [ok |-> FALSE, map |-> map0]
    ELSE parseElectrodeMapJSON(file.scan, map0)

loadPinMap(file, map0) ==
    IF ~file.exists THEN [ok |-> FALSE, map |-> map0]
    ELSE parsePinMapJSON(file.scan, map0)

\* The electrodeMap the constructor leaves: both loaders run (success &= ...),
\* and any failure overwrites every entry with the 1:1 default.
ConstructMap(file1, file2, uninit) ==
    LET r1 == loadElectrodeMap(file1, uninit)
        r2 == loadPinMap(file2, r1.map)
    IN  IF r1.ok /\ r2.ok THEN r2.map
        ELSE [i \in 0 .. (NUM_ELECTRODES - 1) |-> DefaultMapping(i)]

\* ------------------------------------------------------------ mapping files
\* The two mapping sources as the file system presents them to readFile:
\* absent, or a text.  ElectrodeMap.json holds {"mapping": {"<n>": <pin>, ...}}
\* and PinMap.json holds {"electrodes": {"<row>,<col>": <pin>, ...}}.
RECURSIVE RenderElectrodeEntries(_, _, _, _)
RenderElectrodeEntries(keys, pinOf, lo, hi) ==
    IF lo > hi THEN <<>>
    ELSE IF lo = hi
    THEN (IF lo > 1 THEN <<",", " ">> ELSE <<>>)
         \o <<"\"">> \o Itoa(keys[lo]) \o <<"\"", ":", " ">> \o Itoa(pinOf[keys[lo]])
    ELSE RenderElectrodeEntries(keys, pinOf, lo, (lo + hi) \div 2)
         \o RenderElectrodeEntries(keys, pinOf, ((lo + hi) \div 2) + 1, hi)

RenderElectrodeMap(keys, pinOf) ==
    <<"{", "\"", "m", "a", "p", "p", "i", "n", "g", "\"", ":", " ", "{">>
    \o RenderElectrodeEntries(keys, pinOf, 1, Len(keys)) \o <<"}", "}">>

RECURSIVE RenderPinEntries(_, _, _, _)
RenderPinEntries(cells, pinOf, lo, hi) ==
    IF lo > hi THEN <<>>
    ELSE IF lo = hi
    THEN (IF lo > 1 THEN <<",", " ">> ELSE <<>>)
         \o <<"\"">> \o Itoa(cells[lo] \div NUM_COLS) \o <<",">> \o Itoa(cells[lo] % NUM_COLS)
         \o <<"\"", ":", " ">> \o Itoa(pinOf[cells[lo]])
    ELSE RenderPinEntries(cells, pinOf, lo, (lo + hi) \div 2)
         \o RenderPinEntries(cells, pinOf, ((lo + hi) \div 2) + 1, hi)

RenderPinMap(cells, pinOf) ==
    <<"{", "\"", "e", "l", "e", "c", "t", "r", "o", "d", "e", "s", "\"", ":", " ", "{">>
    \o RenderPinEntries(cells, pinOf, 1, Len(cells)) \o <<"}", "}">>

\* Source 1 contents: electrode n -> external pin 141 - n.
ReversePin == [n \in 1 .. NUM_ELECTRODES |-> NUM_ELECTRODES + 1 - n]

\* Source 2 contents: cell (row, col), numbered row * NUM_COLS + col, -> the
\* external pin in column-major order.
ColumnMajorPin ==
    [cell \in 0 .. (NUM_ELECTRODES - 1) |-> (cell % NUM_COLS) * NUM_ROWS + (cell \div NUM_COLS) + 1]

\* A file: whether it exists, whether its text holds the object the parser
\* looks for, the keys that object defines, and what the parser's scan of the
\* text finds.
AbsentFile == [exists |-> FALSE, object |-> FALSE, keys |-> {}, scan |-> [ok |-> FALSE]]

ElectrodeMapFile(keys) ==
    [exists |-> TRUE, object |-> TRUE, keys |-> {keys[i] : i \in 1 .. Len(keys)},
     scan |-> ScanElectrodeMapJSON(RenderElectrodeMap(keys, ReversePin))]

PinMapFile(cells) ==
    [exists |-> TRUE, object |-> TRUE, keys |-> {cells[i] : i \in 1 .. Len(cells)},
     scan |-> ScanPinMapJSON(RenderPinMap(cells, ColumnMajorPin))]

\* Source 1: absent, complete, holding only its first PartialKeys entries,
\* or a text with no "mapping" object.
ElectrodeMapFiles ==
    << AbsentFile,
       ElectrodeMapFile([i \in 1 .. NUM_ELECTRODES |-> i]),
       ElectrodeMapFile([i \in 1 .. PartialKeys |-> i]),
       [exists |-> TRUE, object |-> FALSE, keys |-> {},
        scan |-> ScanElectrodeMapJSON(<<"{", "}">>)] >>

\* Source 2: the same four cases.
PinMapFiles ==
    << AbsentFile,
       PinMapFile([i \in 1 .. NUM_ELECTRODES |-> i - 1]),
       PinMapFile([i \in 1 .. PartialKeys |-> i - 1]),
       [exists |-> TRUE, object |-> FALSE, keys |-> {},
        scan |-> ScanPinMapJSON(<<"{", "}">>)] >>

\* What the electrodeMap array may hold before anything is stored in it: the
\* constructor never initialises it, so it is zero for an object with static
\* storage and arbitrary bytes otherwise.
UninitFills == { [row |-> 0, col |-> 0], [row |-> 10, col |-> 0], [row |-> 200, col |-> 7] }

ConstructedMaps ==
    [f \in (1 .. Len(ElectrodeMapFiles)) \X (1 .. Len(PinMapFiles)) \X UninitFills |->
        ConstructMap(ElectrodeMapFiles[f[1]], PinMapFiles[f[2]],
                     [i \in 0 .. (NUM_ELECTRODES - 1) |-> f[3]])]

\* ------------------------------------------------------------ matrix actuator
\* The actuator's part of the state as one record: es = electrodeState,
\* rl / cl = the level of each row / column line (TRUE = high), w = the
\* number of pin writes made so far in the operation under way.
AllCells(v) == [r \in Rows |-> [c \in Cols |-> v]]

\* setRowColAtomic driving the column to the same level as the row.
setRowColAtomic_ColSameLevel(d, row, col, state) ==
    [d EXCEPT !.rl[row] = state, !.cl[col] = state, !.w = @ + 2]

\* setRowColAtomic: two BSRR stores, row line then column line.
setRowColAtomic(d, row, col, state) ==
    [d EXCEPT !.rl[row] = state, !.cl[col] = ~state, !.w = @ + 2]

\* setElectrode without its last line, the bitmap update.
setElectrode_NoStateUpdate(d, row, col, state) ==
    IF row >= NUM_ROWS \/ col >= NUM_COLS THEN d
    ELSE setRowColAtomic(d, row, col, state)

setElectrode(d, row, col, state) ==
    IF row >= NUM_ROWS \/ col >= NUM_COLS THEN d
    ELSE [setRowColAtomic(d, row, col, state) EXCEPT !.es[row][col] = state]

\* getRowColFromElectrode(uint8_t electrodeNum, ...): the return value and
\* the (row, col) written through the out-pointers when it is true.
getRowColFromElectrode(map, electrodeNum) ==
    IF electrodeNum < 1 \/ electrodeNum > NUM_ELECTRODES
    THEN [ret |-> FALSE, row |-> 0, col |-> 0]
    ELSE [ret |-> TRUE, row |-> map[electrodeNum - 1].row, col |-> map[electrodeNum - 1].col]

setElectrodeByNumber(d, map, electrodeNum, state) ==
    LET rc == getRowColFromElectrode(map, electrodeNum)
    IN  IF rc.ret THEN setElectrode(d, rc.row, rc.col, state) ELSE d

setAllElectrodesLow(d) ==
    [d EXCEPT !.rl = [r \in Rows |-> FALSE], !.cl = [c \in Cols |-> TRUE],
              !.w = @ + NUM_ROWS + NUM_COLS, !.es = AllCells(FALSE)]

\* setAllElectrodesHigh with the column loop of setAllElectrodesLow.
setAllElectrodesHigh_ColsHigh(d) ==
    [d EXCEPT !.rl = [r \in Rows |-> TRUE], !.cl = [c \in Cols |-> TRUE],
              !.w = @ + NUM_ROWS + NUM_COLS, !.es = AllCells(TRUE)]

setAllElectrodesHigh(d) ==
    [d EXCEPT !.rl = [r \in Rows |-> TRUE], !.cl = [c \in Cols |-> FALSE],
              !.w = @ + NUM_ROWS + NUM_COLS, !.es = AllCells(TRUE)]

\* The loops of setRowElectrodes, setColElectrodes and setPattern, one
\* setElectrode per cell in the order of the loop.
RECURSIVE RowLoop(_, _, _, _)
RowLoop(d, row, col, state) ==
    IF col >= NUM_COLS THEN d
    ELSE RowLoop(setElectrode(d, row, col, state), row, col + 1, state)

\* setRowElectrodes with the bounds check replaced by a wrap of the index.
setRowElectrodes_Wrapped(d, row, state) == RowLoop(d, row % NUM_ROWS, 0, state)

setRowElectrodes(d, row, state) ==
    IF row >= NUM_ROWS THEN d ELSE RowLoop(d, row, 0, state)

RECURSIVE ColLoop(_, _, _, _)
ColLoop(d, row, col, state) ==
    IF row >= NUM_ROWS THEN d
    ELSE ColLoop(setElectrode(d, row, col, state), row + 1, col, state)

setColElectrodes(d, col, state) ==
    IF col >= NUM_COLS THEN d ELSE ColLoop(d, 0, col, state)

RECURSIVE PatternRow(_, _, _, _)
PatternRow(d, pattern, row, col) ==
    IF col >= NUM_COLS THEN d
    ELSE PatternRow(setElectrode(d, row, col, pattern[row][col]), pattern, row, col + 1)

\* (The test of w makes each row's result a value before the next row starts;
\* it is always true.)
RECURSIVE PatternLoop(_, _, _)
PatternLoop(d, pattern, row) ==
    IF row >= NUM_ROWS \/ d.w < 0 THEN d
    ELSE PatternLoop(PatternRow(d, pattern, row, 0), pattern, row + 1)

setPattern(d, pattern) == PatternLoop(d, pattern, 0)

getElectrodeState(es, row, col) ==
    IF row >= NUM_ROWS \/ col >= NUM_COLS THEN FALSE ELSE es[row][col]

\* getPattern copying row 0 into every row of the result.
getPattern_RowZeroOnly(es) == [r \in Rows |-> [c \in Cols |-> es[0][c]]]

getPattern(es) == [r \in Rows |-> [c \in Cols |-> es[r][c]]]

\* init() without its last line, the call of setAllElectrodesLow().
init_PinsOnly(d) ==
    [d EXCEPT !.rl = [r \in Rows |-> FALSE], !.cl = [c \in Cols |-> TRUE],
              !.w = @ + NUM_ROWS + NUM_COLS]

\* init(): every row line written low and every column line high, then
\* setAllElectrodesLow().
init(d) ==
    setAllElectrodesLow([d EXCEPT !.rl = [r \in Rows |-> FALSE],
                                  !.cl = [c \in Cols |-> TRUE],
                                  !.w = @ + NUM_ROWS + NUM_COLS])

\* ------------------------------------------------------------ command parsing
\* A command is the C string in cmdBuffer, a sequence of characters; a
\* position past its end reads as NUL.

\* atoi: leading white space, an optional sign, then decimal digits; 0 when
\* no digit follows.
atoi(s, p) ==
    LET q == SkipSpace(s, p)
    IN  IF At(s, q) = "-" THEN 0 - DigitsValue(s, q + 1, 0)
        ELSE IF At(s, q) = "+" THEN DigitsValue(s, q + 1, 0)
        ELSE DigitsValue(s, q, 0)

\* strchr(ptr, ch) followed by ptr++: the position after the next ch, 0 when
\* strchr returns NULL.
AfterNext(s, p, ch) ==
    LET q == strchr(s, p, ch) IN IF q = 0 THEN 0 ELSE q + 1

\* What the handler transmits: sendOK ("OK\n"), sendError ("ERROR: <msg>\n")
\* and sendResponse (any other text, here with its %d / %s arguments).
Reply(k, msg, args) == [k |-> k, msg |-> msg, args |-> args]

sendOK == Reply("OK", "", <<>>)

sendError(errorMsg) == Reply("ERROR", errorMsg, <<>>)

sendResponse(text, args) == Reply("TEXT", text, args)

\* What a parse function decides: the replies it sends before any blocking
\* call, and the call it makes on the driver (act.k = "none" for no call).
Act(k, a, b) == [k |-> k, a |-> a, b |-> b]

NoAct == Act("none", 0, FALSE)

Outcome(out, act) == [out |-> out, act |-> act]

Rejected(errorMsg) == Outcome(<<sendError(errorMsg)>>, NoAct)

\* The range checks of the parse functions.
ValidReps_ZeroAllowed(cycleReps) == ~(cycleReps < 0 \/ cycleReps > 1000)

ValidReps(cycleReps) == ~(cycleReps < 1 \/ cycleReps > 1000)

ValidDelay(cycleDelay) == ~(cycleDelay < 0)

ValidSteps(numSteps) == ~(numSteps < 1 \/ numSteps > MAX_STEPS)

ValidElectrode(electrode) == ~(electrode < 1 \/ electrode > 140)

ValidDuration(duration) == ~(duration < 0)

ValidRow(row) == ~(row < 0 \/ row > 9)

ValidCol(col) == ~(col < 0 \/ col > 13)

ValidState(state) == ~(state # 0 /\ state # 1)

\* The step loop of parseElectrodeCommand from step i on, ptr at the step's
\* text: the error of the first invalid step, comma, delimiter or END marker,
\* or the electrode ids and durations once END follows the last step.
RECURSIVE ParseSteps(_, _, _, _, _, _)
ParseSteps(cmd, ptr, i, numSteps, electrodeIds, durations) ==
    IF i >= numSteps THEN [err |-> "Missing END marker", args |-> <<>>]
    ELSE
    LET id == atoi(cmd, ptr)
        afterComma == AfterNext(cmd, ptr, ",")
        duration == atoi(cmd, afterComma)
        afterBar == AfterNext(cmd, afterComma, "|")
    IN  IF ~ValidElectrode(id)
        THEN [err |-> "Invalid electrode ID at step %d (1-140)", args |-> <<i>>]
        ELSE IF afterComma = 0 THEN [err |-> "Missing comma in step", args |-> <<>>]
        ELSE IF ~ValidDuration(duration)
        THEN [err |-> "Invalid duration at step %d", args |-> <<i>>]
        ELSE IF afterBar = 0 THEN [err |-> "Missing delimiter", args |-> <<>>]
        ELSE IF strncmpEq(cmd, afterBar, <<"E", "N", "D">>)
        THEN IF i + 1 = numSteps
             THEN [err |-> "", ids |-> Append(electrodeIds, id),
                   durs |-> Append(durations, duration)]
             ELSE [err |-> "Early END marker", args |-> <<>>]
        ELSE ParseSteps(cmd, afterBar, i + 1, numSteps,
                        Append(electrodeIds, id), Append(durations, duration))

\* parseElectrodeCommand, cmd + (p-1) being "START|...": the header fields
\* one after the other, then the steps; on success the call of
\* UartCommandHandler::executeSequence with what was parsed.
parseElectrodeCommand(cmd, p) ==
    LET cycleReps == atoi(cmd, p + 6)
        afterReps == AfterNext(cmd, p + 6, "|")
        cycleDelay == atoi(cmd, afterReps)
        afterDelay == AfterNext(cmd, afterReps, "|")
        numSteps == atoi(cmd, afterDelay)
        afterSteps == AfterNext(cmd, afterDelay, "|")
        steps == ParseSteps(cmd, afterSteps, 0, numSteps, <<>>, <<>>)
    IN  IF ~ValidReps(cycleReps) THEN Rejected("Invalid cycle repetitions (1-1000)")
        ELSE IF afterReps = 0 THEN Rejected("Missing delimiter after REPS")
        ELSE IF ~ValidDelay(cycleDelay) THEN Rejected("Invalid cycle delay")
        ELSE IF afterDelay = 0 THEN Rejected("Missing delimiter after DELAY")
        ELSE IF ~ValidSteps(numSteps)
        THEN Outcome(<<Reply("ERROR", "Invalid steps count (1-%d)", <<MAX_STEPS>>)>>, NoAct)
        ELSE IF afterSteps = 0 THEN Rejected("Missing delimiter after STEPS")
        ELSE IF steps.err # "" THEN Outcome(<<Reply("ERROR", steps.err, steps.args)>>, NoAct)
        ELSE Outcome(<<>>, Act("executeSequence",
                               [cycleReps |-> cycleReps, cycleDelay |-> cycleDelay,
                                numSteps |-> numSteps, electrodeIds |-> steps.ids,
                                durations |-> steps.durs], FALSE))

\* parseSingleElectrodeCommand with the driver call made before the state
\* field is checked.
parseSingleElectrodeCommand_ActFirst(cmd, p) ==
    LET electrode == atoi(cmd, p + 4)
        afterElectrode == AfterNext(cmd, p + 4, "|")
        state == atoi(cmd, afterElectrode)
    IN  IF ~ValidElectrode(electrode) THEN Rejected("Invalid electrode (1-140)")
        ELSE IF afterElectrode = 0 THEN Rejected("Missing delimiter")
        ELSE IF ~ValidState(state)
        THEN Outcome(<<sendError("Invalid state (0=LOW, 1=HIGH)")>>,
                     Act("setElectrodeByNumber", electrode, state = 1))
        ELSE Outcome(<<sendResponse("Electrode %d set to %s\n", <<electrode, state>>), sendOK>>,
                     Act("setElectrodeByNumber", electrode, state = 1))

parseSingleElectrodeCommand(cmd, p) ==
    LET electrode == atoi(cmd, p + 4)
        afterElectrode == AfterNext(cmd, p + 4, "|")
        state == atoi(cmd, afterElectrode)
    IN  IF ~ValidElectrode(electrode) THEN Rejected("Invalid electrode (1-140)")
        ELSE IF afterElectrode = 0 THEN Rejected("Missing delimiter")
        ELSE IF ~ValidState(state) THEN Rejected("Invalid state (0=LOW, 1=HIGH)")
        ELSE Outcome(<<sendResponse("Electrode %d set to %s\n", <<electrode, state>>), sendOK>>,
                     Act("setElectrodeByNumber", electrode, state = 1))

parseAllElectrodesCommand(cmd, p) ==
    LET state == atoi(cmd, p + 4)
    IN  IF ~ValidState(state) THEN Rejected("Invalid state (0=LOW, 1=HIGH)")
        ELSE IF state = 1
        THEN Outcome(<<sendResponse("All electrodes set to HIGH\n", <<>>), sendOK>>,
                     Act("setAllElectrodesHigh", 0, TRUE))
        ELSE Outcome(<<sendResponse("All electrodes set to LOW\n", <<>>), sendOK>>,
                     Act("setAllElectrodesLow", 0, FALSE))

parseRowCommand(cmd, p) ==
    LET row == atoi(cmd, p + 4)
        afterRow == AfterNext(cmd, p + 4, "|")
        state == atoi(cmd, afterRow)
    IN  IF ~ValidRow(row) THEN Rejected("Invalid row (0-9)")
        ELSE IF afterRow = 0 THEN Rejected("Missing delimiter")
        ELSE IF ~ValidState(state) THEN Rejected("Invalid state (0=LOW, 1=HIGH)")
        ELSE Outcome(<<sendResponse("Row %d set to %s\n", <<row, state>>), sendOK>>,
                     Act("setRowElectrodes", row, state = 1))

parseColCommand(cmd, p) ==
    LET col == atoi(cmd, p + 4)
        afterCol == AfterNext(cmd, p + 4, "|")
        state == atoi(cmd, afterCol)
    IN  IF ~ValidCol(col) THEN Rejected("Invalid column (0-13)")
        ELSE IF afterCol = 0 THEN Rejected("Missing delimiter")
        ELSE IF ~ValidState(state) THEN Rejected("Invalid state (0=LOW, 1=HIGH)")
        ELSE Outcome(<<sendResponse("Column %d set to %s\n", <<col, state>>), sendOK>>,
                     Act("setColElectrodes", col, state = 1))

\* parseTestCommand: the banner, then the blocking runElectrodeTest; "Test
\* complete" and OK follow when it returns.
parseTestCommand ==
    Outcome(<<sendResponse("Running electrode test (140 electrodes x 100ms)...\n", <<>>)>>,
            Act("runElectrodeTest", 0, FALSE))

\* parseStatusCommand reporting RUNNING whatever the engine says.
parseStatusCommand_Running(running) ==
    Outcome(<<sendResponse("\n=== System Status ===\n", <<>>),
              sendResponse("Sequence: RUNNING\n", <<>>),
              sendResponse("Electrodes: 140 (10 rows x 14 columns)\n", <<>>),
              sendResponse("Status: OK\n\n", <<>>)>>, NoAct)

parseStatusCommand(running) ==
    Outcome(<<sendResponse("\n=== System Status ===\n", <<>>),
              sendResponse(IF running THEN "Sequence: RUNNING\n" ELSE "Sequence: IDLE\n", <<>>),
              sendResponse("Electrodes: 140 (10 rows x 14 columns)\n", <<>>),
              sendResponse("Status: OK\n\n", <<>>)>>, NoAct)

\* parseStopCommand switching every electrode off instead of stopping.
parseStopCommand_AllLow(running) ==
    IF running
    THEN Outcome(<<sendResponse("Sequence stopped\n", <<>>), sendOK>>,
                 Act("setAllElectrodesLow", 0, FALSE))
    ELSE Outcome(<<sendResponse("No sequence running\n", <<>>), sendOK>>, NoAct)

parseStopCommand(running) ==
    IF running
    THEN Outcome(<<sendResponse("Sequence stopped\n", <<>>), sendOK>>, Act("stopSequence", 0, FALSE))
    ELSE Outcome(<<sendResponse("No sequence running\n", <<>>), sendOK>>, NoAct)

\* parseGetStateCommand reporting LOW whatever the bitmap holds.
parseGetStateCommand_AlwaysLow(cmd, p, map, es) ==
    LET electrode == atoi(cmd, p + 4)
        rc == getRowColFromElectrode(map, electrode % 256)
    IN  IF ~ValidElectrode(electrode) THEN Rejected("Invalid electrode (1-140)")
        ELSE IF rc.ret
        THEN Outcome(<<sendResponse("Electrode %d (Row %d, Col %d): %s\n",
                                    <<electrode, rc.row, rc.col, 0>>),
                       sendOK>>, NoAct)
        ELSE Rejected("Failed to get electrode state")

parseGetStateCommand(cmd, p, map, es) ==
    LET electrode == atoi(cmd, p + 4)
        rc == getRowColFromElectrode(map, electrode % 256)
        state == getElectrodeState(es, rc.row, rc.col)
    IN  IF ~ValidElectrode(electrode) THEN Rejected("Invalid electrode (1-140)")
        ELSE IF rc.ret
        THEN Outcome(<<sendResponse("Electrode %d (Row %d, Col %d): %s\n",
                                    <<electrode, rc.row, rc.col, IF state THEN 1 ELSE 0>>),
                       sendOK>>, NoAct)
        ELSE Rejected("Failed to get electrode state")

parseReloadMappingCommand ==
    Outcome(<<sendResponse("Reload mapping not implemented (requires re-initialization)\n", <<>>),
              sendError("Not implemented")>>, NoAct)

HelpText ==
    <<"\n=== ArrayDriver Commands ===\n",
      "START|REPS|DELAY|STEPS|ID1,DUR1|ID2,DUR2|...|END - Execute sequence\n",
      "SET|ELECTRODE|STATE - Set single electrode (STATE: 0=LOW, 1=HIGH)\n",
      "ALL|STATE - Set all electrodes\n",
      "ROW|ROW_NUM|STATE - Set all electrodes in row\n",
      "COL|COL_NUM|STATE - Set all electrodes in column\n",
      "TEST - Run full electrode test\n",
      "STATUS - Get system status\n",
      "STOP - Stop current sequence\n",
      "GET|ELECTRODE - Get electrode state\n",
      "RELOAD - Reload JSON mappings\n",
      "HELP - Show this help\n\n">>

RECURSIVE SkipBlank(_, _)
SkipBlank(s, p) == IF At(s, p) \in {" ", "\t"} THEN SkipBlank(s, p + 1) ELSE p

\* parseCommand with no final else branch.
parseCommand_NoUnknownError(cmd, running, map, es) ==
    LET p == SkipBlank(cmd, 1)
    IN  IF At(cmd, p) = "NUL" THEN Outcome(<<>>, NoAct)
        ELSE IF strncmpEq(cmd, p, <<"S", "T", "A", "R", "T", "|">>) THEN parseElectrodeCommand(cmd, p)
        ELSE IF strncmpEq(cmd, p, <<"S", "E", "T", "|">>) THEN parseSingleElectrodeCommand(cmd, p)
        ELSE IF strncmpEq(cmd, p, <<"A", "L", "L", "|">>) THEN parseAllElectrodesCommand(cmd, p)
        ELSE IF strncmpEq(cmd, p, <<"R", "O", "W", "|">>) THEN parseRowCommand(cmd, p)
        ELSE IF strncmpEq(cmd, p, <<"C", "O", "L", "|">>) THEN parseColCommand(cmd, p)
        ELSE IF strncmpEq(cmd, p, <<"T", "E", "S", "T">>) THEN parseTestCommand
        ELSE IF strncmpEq(cmd, p, <<"S", "T", "A", "T", "U", "S">>) THEN parseStatusCommand(running)
        ELSE IF strncmpEq(cmd, p, <<"S", "T", "O", "P">>) THEN parseStopCommand(running)
        ELSE IF strncmpEq(cmd, p, <<"G", "E", "T", "|">>) THEN parseGetStateCommand(cmd, p, map, es)
        ELSE IF strncmpEq(cmd, p, <<"R", "E", "L", "O", "A", "D">>) THEN parseReloadMappingCommand
        ELSE IF strncmpEq(cmd, p, <<"H", "E", "L", "P">>)
        THEN Outcome([i \in 1 .. Len(HelpText) |-> sendResponse(HelpText[i], <<>>)], NoAct)
        ELSE Outcome(<<>>, NoAct)

\* parseCommand: leading blanks skipped, an empty command ignored, then the
\* first matching prefix decides the parse function.  running is
\* isSequenceRunning(), map and es what GET reads.
parseCommand(cmd, running, map, es) ==
    LET p == SkipBlank(cmd, 1)
    IN  IF At(cmd, p) = "NUL" THEN Outcome(<<>>, NoAct)
        ELSE IF strncmpEq(cmd, p, <<"S", "T", "A", "R", "T", "|">>) THEN parseElectrodeCommand(cmd, p)
        ELSE IF strncmpEq(cmd, p, <<"S", "E", "T", "|">>) THEN parseSingleElectrodeCommand(cmd, p)
        ELSE IF strncmpEq(cmd, p, <<"A", "L", "L", "|">>) THEN parseAllElectrodesCommand(cmd, p)
        ELSE IF strncmpEq(cmd, p, <<"R", "O", "W", "|">>) THEN parseRowCommand(cmd, p)
        ELSE IF strncmpEq(cmd, p, <<"C", "O", "L", "|">>) THEN parseColCommand(cmd, p)
        ELSE IF strncmpEq(cmd, p, <<"T", "E", "S", "T">>) THEN parseTestCommand
        ELSE IF strncmpEq(cmd, p, <<"S", "T", "A", "T", "U", "S">>) THEN parseStatusCommand(running)
        ELSE IF strncmpEq(cmd, p, <<"S", "T", "O", "P">>) THEN parseStopCommand(running)
        ELSE IF strncmpEq(cmd, p, <<"G", "E", "T", "|">>) THEN parseGetStateCommand(cmd, p, map, es)
        ELSE IF strncmpEq(cmd, p, <<"R", "E", "L", "O", "A", "D">>) THEN parseReloadMappingCommand
        ELSE IF strncmpEq(cmd, p, <<"H", "E", "L", "P">>)
        THEN Outcome([i \in 1 .. Len(HelpText) |-> sendResponse(HelpText[i], <<>>)], NoAct)
        ELSE Rejected("Unknown command. Type 'HELP' for command list")

\* ------------------------------------------------------------ state
VARIABLES
    mapSource,        \* the mapping files and uninitialised memory the constructor met
    electrodeMap,     \* ArrayDriver::electrodeMap
    electrodeState,   \* ArrayDriver::electrodeState
    rowLevel,         \* output level of each row line (TRUE = high)
    colLevel,         \* output level of each column line
    sequenceRunning,  \* ArrayDriver::sequenceRunning
    currentStep,      \* ArrayDriver::currentStep
    stepStartTime,    \* ArrayDriver::stepStartTime
    currentSequence,  \* ArrayDriver::currentSequence
    accepted,         \* the sequence of the last executeSequenceAsync that passed its checks
    pc,               \* where the main context is: "idle", or inside a blocking call
    run,              \* the locals of the blocking call under way
    trace,            \* actuator calls and delays of the call under way or just ended
    lastOp,           \* the last ArrayDriver call made: name, arguments, result
    scope,            \* which calls have been made: see Scope
    nCalls,           \* how many ArrayDriver calls have been made
    cmdBuffer,        \* UartCommandHandler::cmdBuffer up to the last byte written
    cmdBufferIndex,   \* UartCommandHandler::cmdBufferIndex
    cmdComplete,      \* UartCommandHandler::cmdComplete
    sequenceSteps,    \* UartCommandHandler::sequenceSteps, the entries written so far
    handlerSequence,  \* UartCommandHandler::currentSequence
    wire,             \* bytes of the line being received, not yet given to processByte
    out,              \* what the handler has transmitted since the dispatch began
    disp,             \* the dispatch under way or just ended: see Dispatch
    nLines            \* how many lines have been sent

drvVars == <<electrodeState, rowLevel, colLevel>>
engineVars == <<sequenceRunning, currentStep, stepStartTime, currentSequence, accepted>>
mapVars == <<mapSource, electrodeMap>>
rxVars == <<cmdBuffer, cmdBufferIndex, cmdComplete>>
uartVars == <<cmdBuffer, cmdBufferIndex, cmdComplete, sequenceSteps, handlerSequence,
              wire, out, disp, nLines>>
vars == <<mapSource, electrodeMap, electrodeState, rowLevel, colLevel,
          sequenceRunning, currentStep, stepStartTime, currentSequence, accepted,
          pc, run, trace, lastOp, scope, nCalls,
          cmdBuffer, cmdBufferIndex, cmdComplete, sequenceSteps, handlerSequence,
          wire, out, disp, nLines>>

Drv == [es |-> electrodeState, rl |-> rowLevel, cl |-> colLevel, w |-> 0]

\* An entry of trace: a call of the actuator or of HAL_Delay.
Ev(e, a, b, c) == [e |-> e, a |-> a, b |-> b, c |-> c]

EvSetElectrode(row, col, state) == Ev("setElectrode", row, col, state)

EvDelay(ms) == Ev("HAL_Delay", ms, 0, FALSE)

NullSequence == [null |-> TRUE, steps |-> <<>>, hasSteps |-> FALSE,
                 numSteps |-> 0, cycleCount |-> 0, cycleDelay_ms |-> 0]

NoRun == [caller |-> "none", seq |-> NullSequence, cycle |-> 0, step |-> 0]

\* A call as lastOp records it: its name and arguments, what it returned, how
\* many pin writes it made, and whether it left the bitmap and every line as
\* they were.
Call(op, a, b, c) ==
    [op |-> op, a |-> a, b |-> b, c |-> c, ret |-> FALSE, writes |-> 0, same |-> TRUE]

\* The calls the actuator's invariants are stated for.
MatrixOps == {"setElectrode", "setRowElectrodes", "setColElectrodes",
              "setAllElectrodesHigh", "setAllElectrodesLow", "setPattern",
              "getElectrodeState", "getPattern"}

\* scope after a call: "ctor" until init() is called, "matrix" while only
\* MatrixOps have been called since init(), "any" after any other call.
Scope(op) ==
    IF op = "init" THEN "matrix"
    ELSE IF scope = "ctor" \/ op \in MatrixOps THEN scope
    ELSE "any"

\* The sequence engine as a record, for the operators below.
Engine == [running |-> sequenceRunning, step |-> currentStep,
           start |-> stepStartTime, seq |-> currentSequence]

\* executeSequenceAsync with the start time left as it was.
executeSequenceAsync_NoTick(e, sequence, tick) ==
    IF sequence.null \/ ~sequence.hasSteps THEN e
    ELSE [running |-> TRUE, step |-> 0, start |-> e.start, seq |-> sequence]

\* executeSequenceAsync: nothing for a null sequence or step list; otherwise
\* the sequence recorded, running set, step 0, the tick read from HAL_GetTick.
executeSequenceAsync(e, sequence, tick) ==
    IF sequence.null \/ ~sequence.hasSteps THEN e
    ELSE [running |-> TRUE, step |-> 0, start |-> tick, seq |-> sequence]

isSequenceRunning(e) == e.running

\* stopSequence with the running flag left set.
stopSequence_StillRunning(e) == [e EXCEPT !.seq = NullSequence, !.step = 0]

\* stopSequence with the sequence pointer left as it is.
stopSequence_KeepsReference(e) == [e EXCEPT !.running = FALSE, !.step = 0]

stopSequence(e) == [e EXCEPT !.running = FALSE, !.seq = NullSequence, !.step = 0]

EngineBecomes(e) ==
    /\ sequenceRunning' = e.running
    /\ currentStep' = e.step
    /\ stepStartTime' = e.start
    /\ currentSequence' = e.seq

\* The actuator state becomes d.
DrvBecomes(d) ==
    /\ electrodeState' = d.es
    /\ rowLevel' = d.rl
    /\ colLevel' = d.cl

\* A call that returns at once: the actuator state becomes d, and the call is
\* recorded with the number of pin writes it made.
Becomes(d, call) ==
    /\ pc = "idle"
    /\ nCalls < MaxCalls
    /\ DrvBecomes(d)
    /\ lastOp' = [call EXCEPT !.writes = d.w,
                              !.same = (d.es = electrodeState /\ d.rl = rowLevel
                                        /\ d.cl = colLevel)]
    /\ scope' = Scope(call.op)
    /\ nCalls' = nCalls + 1
    /\ trace' = <<>>
    /\ UNCHANGED <<mapVars, engineVars, pc, run, uartVars>>

\* What the engine and the actuator hold, as a dispatch finds them.
Snapshot == <<electrodeState, rowLevel, colLevel,
              sequenceRunning, currentStep, stepStartTime, currentSequence>>

\* The dispatch under way or just ended: the command string handed to
\* parseCommand, the Snapshot taken as it began, and whether processCommands
\* has returned; line is the last line put on the wire, terminator included.
Dispatch(cmd, before, done) ==
    [cmd |-> cmd, before |-> before, done |-> done, line |-> disp.line]

NoDispatch == [cmd |-> <<>>, before |-> <<>>, done |-> FALSE, line |-> <<>>]

\* The handler after its constructor and init(): buffer zeroed, no command
\* pending, nothing parsed yet.
InitHandler ==
    /\ cmdBuffer = <<>>
    /\ cmdBufferIndex = 0
    /\ cmdComplete = FALSE
    /\ sequenceSteps = <<>>
    /\ handlerSequence = NullSequence
    /\ wire = <<>>
    /\ out = <<>>
    /\ disp = NoDispatch
    /\ nLines = 0

\* The state after the constructor: bitmap cleared, engine idle, map loaded;
\* the output data registers hold their reset value (every line low) until
\* init().
InitDriver ==
    /\ electrodeMap = ConstructedMaps[mapSource]
    /\ electrodeState = AllCells(FALSE)
    /\ rowLevel = [r \in Rows |-> FALSE]
    /\ colLevel = [c \in Cols |-> FALSE]
    /\ sequenceRunning = FALSE
    /\ currentStep = 0
    /\ stepStartTime = 0
    /\ currentSequence = NullSequence
    /\ accepted = NullSequence
    /\ pc = "idle"
    /\ run = NoRun
    /\ trace = <<>>
    /\ lastOp = Call("ArrayDriver", 0, 0, FALSE)
    /\ scope = "ctor"
    /\ nCalls = 0
    /\ InitHandler

\* ------------------------------------------------------------ inputs
RowArgs == {0, 9, 10, 255}
ColArgs == {0, 13, 14}
ElectrodeArgs == {0, 1, 2, 140, 141, 255}

Checkerboard == [r \in Rows |-> [c \in Cols |-> (r + c) % 2 = 0]]
OneCorner == [r \in Rows |-> [c \in Cols |-> r = 9 /\ c = 13]]
PatternArgs == {Checkerboard, OneCorner, AllCells(TRUE)}

Step(row, col, state, ms) == [row |-> row, col |-> col, state |-> state, duration_ms |-> ms]

Sequence(steps, numSteps, cycleCount, cycleDelay) ==
    [null |-> FALSE, steps |-> steps, hasSteps |-> TRUE,
     numSteps |-> numSteps, cycleCount |-> cycleCount, cycleDelay_ms |-> cycleDelay]

TwoSteps == <<Step(0, 0, TRUE, 10), Step(9, 13, FALSE, 20)>>

\* A null pointer, a null step list, no steps, no cycles, and sequences of one
\* and two steps run for one to MaxCycles cycles.
SequenceArgs ==
    {NullSequence,
     [Sequence(<<>>, 2, 1, 0) EXCEPT !.hasSteps = FALSE],
     Sequence(TwoSteps, 0, 2, 5),
     Sequence(TwoSteps, 2, 0, 5)}
    \cup {Sequence(TwoSteps, n, r, 5) : n \in 1 .. 2, r \in 1 .. MaxCycles}

\* ------------------------------------------------------------ ArrayDriver calls
DoInit ==
    Becomes(init(Drv), Call("init", 0, 0, FALSE))

DoSetElectrode ==
    \E row \in RowArgs, col \in ColArgs, state \in BOOLEAN :
        Becomes(setElectrode(Drv, row, col, state), Call("setElectrode", row, col, state))

DoSetElectrodeByNumber ==
    \E n \in ElectrodeArgs, state \in BOOLEAN :
        Becomes(setElectrodeByNumber(Drv, electrodeMap, n, state),
                Call("setElectrodeByNumber", n, 0, state))

DoGetRowColFromElectrode ==
    \E n \in ElectrodeArgs :
        LET rc == getRowColFromElectrode(electrodeMap, n)
        IN  Becomes(Drv, [Call("getRowColFromElectrode", n, <<rc.row, rc.col>>, FALSE)
                             EXCEPT !.ret = rc.ret])

DoSetAllElectrodesHigh ==
    Becomes(setAllElectrodesHigh(Drv), Call("setAllElectrodesHigh", 0, 0, TRUE))

DoSetAllElectrodesLow ==
    Becomes(setAllElectrodesLow(Drv), Call("setAllElectrodesLow", 0, 0, FALSE))

DoSetRowElectrodes ==
    \E row \in RowArgs, state \in BOOLEAN :
        Becomes(setRowElectrodes(Drv, row, state), Call("setRowElectrodes", row, 0, state))

DoSetColElectrodes ==
    \E col \in ColArgs, state \in BOOLEAN :
        Becomes(setColElectrodes(Drv, col, state), Call("setColElectrodes", 0, col, state))

DoSetPattern ==
    \E pattern \in PatternArgs :
        Becomes(setPattern(Drv, pattern), Call("setPattern", pattern, 0, FALSE))

DoGetElectrodeState ==
    \E row \in RowArgs, col \in ColArgs :
        Becomes(Drv, [Call("getElectrodeState", row, col, FALSE)
                         EXCEPT !.ret = getElectrodeState(electrodeState, row, col)])

DoGetPattern ==
    Becomes(Drv, [Call("getPattern", 0, 0, FALSE) EXCEPT !.ret = getPattern(electrodeState)])

\* ArrayDriver::executeSequence, entered: a null sequence or step list returns
\* at once; otherwise the loops start at cycle 0, step 0.
DoExecuteSequence ==
    \E seq \in SequenceArgs :
        /\ pc = "idle"
        /\ nCalls < MaxCalls
        /\ IF seq.null \/ ~seq.hasSteps
           THEN /\ pc' = "idle"
                /\ run' = NoRun
           ELSE /\ pc' = "seq"
                /\ run' = [caller |-> "api", seq |-> seq, cycle |-> 0, step |-> 0]
        /\ lastOp' = Call("executeSequence", seq, 0, FALSE)
        /\ scope' = Scope("executeSequence")
        /\ nCalls' = nCalls + 1
        /\ trace' = <<>>
        /\ UNCHANGED <<mapVars, drvVars, engineVars, uartVars>>

\* One pass of the inner loop: setElectrode for the step, then HAL_Delay for
\* its duration.
SeqStep ==
    /\ pc = "seq"
    /\ run.cycle < run.seq.cycleCount
    /\ run.step < run.seq.numSteps
    /\ LET st == run.seq.steps[run.step + 1]
       IN  /\ DrvBecomes(setElectrode(Drv, st.row, st.col, st.state))
           /\ trace' = trace \o <<EvSetElectrode(st.row, st.col, st.state),
                                  EvDelay(st.duration_ms)>>
    /\ run' = [run EXCEPT !.step = @ + 1]
    /\ UNCHANGED <<mapVars, engineVars, pc, lastOp, scope, nCalls, uartVars>>

\* SeqCycleEnd with the delay made after every cycle, the last included.
SeqCycleEnd_DelayEveryCycle ==
    /\ pc = "seq"
    /\ run.cycle < run.seq.cycleCount
    /\ run.step >= run.seq.numSteps
    /\ trace' = Append(trace, EvDelay(run.seq.cycleDelay_ms))
    /\ run' = [run EXCEPT !.cycle = @ + 1, !.step = 0]
    /\ UNCHANGED <<mapVars, drvVars, engineVars, pc, lastOp, scope, nCalls, uartVars>>

\* The inner loop has ended: the delay between cycles unless this was the
\* last cycle, then the next cycle.  (cycleCount >= 1 inside the loop, so the
\* unsigned cycleCount - 1 does not wrap.)
SeqCycleEnd ==
    /\ pc = "seq"
    /\ run.cycle < run.seq.cycleCount
    /\ run.step >= run.seq.numSteps
    /\ trace' = IF run.cycle < run.seq.cycleCount - 1
                THEN Append(trace, EvDelay(run.seq.cycleDelay_ms))
                ELSE trace
    /\ run' = [run EXCEPT !.cycle = @ + 1, !.step = 0]
    /\ UNCHANGED <<mapVars, drvVars, engineVars, pc, lastOp, scope, nCalls, uartVars>>

\* The outer loop has ended: executeSequence returns to the caller.
SeqReturn ==
    /\ pc = "seq"
    /\ run.caller = "api"
    /\ run.cycle >= run.seq.cycleCount
    /\ pc' = "idle"
    /\ run' = NoRun
    /\ UNCHANGED <<mapVars, drvVars, engineVars, trace, lastOp, scope, nCalls, uartVars>>

\* The sequences given to executeSequenceAsync: a null pointer, a null step
\* list, no steps, and sequences of one and two steps.
AsyncArgs ==
    {NullSequence,
     [Sequence(<<>>, 2, 1, 0) EXCEPT !.hasSteps = FALSE],
     Sequence(TwoSteps, 0, 2, 5),
     Sequence(TwoSteps, 1, 2, 5),
     Sequence(TwoSteps, 2, 1, 0)}

\* What HAL_GetTick returns.
TickArgs == {0, 1000}

\* A call on the engine that returns at once: the engine becomes e; the call
\* is recorded with the engine as it found it.
EngineCall(e, op, a, b) ==
    /\ pc = "idle"
    /\ nCalls < MaxCalls
    /\ EngineBecomes(e)
    /\ lastOp' = [Call(op, a, b, Engine) EXCEPT !.ret = isSequenceRunning(Engine)]
    /\ scope' = Scope(op)
    /\ nCalls' = nCalls + 1
    /\ trace' = <<>>
    /\ UNCHANGED <<mapVars, drvVars, pc, run, uartVars>>

DoExecuteSequenceAsync ==
    \E sequence \in AsyncArgs, tick \in TickArgs :
        /\ EngineCall(executeSequenceAsync(Engine, sequence, tick),
                      "executeSequenceAsync", sequence, tick)
        /\ accepted' = IF sequence.null \/ ~sequence.hasSteps THEN accepted ELSE sequence

DoIsSequenceRunning ==
    /\ EngineCall(Engine, "isSequenceRunning", 0, 0)
    /\ UNCHANGED accepted

DoStopSequence ==
    /\ EngineCall(stopSequence(Engine), "stopSequence", 0, 0)
    /\ UNCHANGED accepted

\* What the driver's specification boots from: no mapping files (the 1:1
\* default map), and complete files read into an object with static storage.
BootSources == { <<1, 1, [row |-> 0, col |-> 0]>>, <<2, 2, [row |-> 0, col |-> 0]>> }

Init ==
    /\ mapSource \in BootSources
    /\ InitDriver

Next ==
    \/ DoInit
    \/ DoSetElectrode
    \/ DoSetElectrodeByNumber
    \/ DoGetRowColFromElectrode
    \/ DoSetAllElectrodesHigh
    \/ DoSetAllElectrodesLow
    \/ DoSetRowElectrodes
    \/ DoSetColElectrodes
    \/ DoSetPattern
    \/ DoGetElectrodeState
    \/ DoGetPattern
    \/ DoExecuteSequence
    \/ SeqStep
    \/ SeqCycleEnd
    \/ SeqReturn

Spec == Init /\ [][Next]_vars

\* The constructor under every combination of mapping files and
\* uninitialised memory, followed by calls that go through the map.
InitMap ==
    /\ mapSource \in DOMAIN ConstructedMaps
    /\ InitDriver

NextMap ==
    \/ DoSetElectrodeByNumber
    \/ DoGetRowColFromElectrode

SpecMap == InitMap /\ [][NextMap]_vars

\* ------------------------------------------------------------ lines received
Bar == <<"|">>

\* The text of one field, as a sender may write it: empty, in range, at and
\* past the ends of the range, and not a number.
ElectrodeFields == {<<>>, <<"0">>, <<"1">>, <<"1", "4", "0">>, <<"1", "4", "1">>, <<"x">>}
RowFields == {<<>>, <<"0">>, <<"9">>, <<"1", "0">>, <<"-", "1">>, <<"x">>}
ColFields == {<<>>, <<"0">>, <<"1", "3">>, <<"1", "4">>, <<"x">>}
StateFields == {<<>>, <<"0">>, <<"1">>, <<"2">>, <<"x">>, <<"1", "x">>}

SetLines ==
    {<<"S", "E", "T", "|">> \o e \o Bar \o st : e \in ElectrodeFields, st \in StateFields}
    \cup {<<"S", "E", "T", "|">> \o e : e \in ElectrodeFields}

AllLines == {<<"A", "L", "L", "|">> \o st : st \in StateFields}

RowLines ==
    {<<"R", "O", "W", "|">> \o r \o Bar \o st : r \in RowFields, st \in StateFields}
    \cup {<<"R", "O", "W", "|">> \o r : r \in RowFields}

ColLines ==
    {<<"C", "O", "L", "|">> \o c \o Bar \o st : c \in ColFields, st \in StateFields}
    \cup {<<"C", "O", "L", "|">> \o c : c \in ColFields}

GetLines == {<<"G", "E", "T", "|">> \o e : e \in ElectrodeFields}

\* The steps of a START line, each <<electrode id, duration>>.
RECURSIVE RenderSteps(_)
RenderSteps(steps) ==
    IF steps = <<>> THEN <<>>
    ELSE Itoa(Head(steps)[1]) \o <<",">> \o Itoa(Head(steps)[2]) \o Bar
         \o RenderSteps(Tail(steps))

\* START|REPS|DELAY|STEPS|ID1,DUR1|ID2,DUR2|...|END
StartLine(reps, delay, steps) ==
    <<"S", "T", "A", "R", "T", "|">> \o Itoa(reps) \o Bar \o Itoa(delay) \o Bar \o Itoa(Len(steps)) \o Bar
    \o RenderSteps(steps) \o <<"E", "N", "D">>

StepLists == {<< <<1, 10>>, <<2, 20>> >>, << <<140, 0>> >>, << <<15, 7>>, <<15, 0>>, <<28, 3>> >>}

\* Well-formed START lines of one to MaxCycles repetitions, and the line
\* START|3|50|2|1,10|2,20|END.
GoodStartLines ==
    {StartLine(reps, delay, steps) : reps \in 1 .. MaxCycles, delay \in {0, 50}, steps \in StepLists}
    \cup {StartLine(3, 50, << <<1, 10>>, <<2, 20>> >>)}

\* START lines with a header field out of range or not a number, a delimiter
\* missing, a step out of range, or the END marker missing, early or late.
BadStartLines ==
    {
     <<"S", "T", "A", "R", "T", "|", "0", "|", "5", "0", "|", "2", "|", "1", ",", "1", "0", "|", "2", ",", "2", "0", "|", "E", "N", "D">>,
     <<"S", "T", "A", "R", "T", "|", "1", "0", "0", "1", "|", "0", "|", "1", "|", "1", ",", "1", "|", "E", "N", "D">>,
     <<"S", "T", "A", "R", "T", "|", "1", "|", "0", "|", "0", "|", "E", "N", "D">>,
     <<"S", "T", "A", "R", "T", "|", "1", "|", "0", "|", "2", "5", "7", "|", "1", ",", "1", "|", "E", "N", "D">>,
     <<"S", "T", "A", "R", "T", "|", "0", "|", "0", "|", "0", "|", "E", "N", "D">>,
     <<"S", "T", "A", "R", "T", "|", "x", "|", "0", "|", "1", "|", "1", ",", "1", "|", "E", "N", "D">>,
     <<"S", "T", "A", "R", "T", "|", "2">>,
     <<"S", "T", "A", "R", "T", "|", "2", "|", "0">>,
     <<"S", "T", "A", "R", "T", "|", "2", "|", "0", "|", "1">>,
     <<"S", "T", "A", "R", "T", "|", "1", "|", "-", "5", "|", "1", "|", "1", ",", "1", "|", "E", "N", "D">>,
     <<"S", "T", "A", "R", "T", "|", "2", "|", "0", "|", "2", "|", "1", ",", "1", "0", "|", "1", "4", "1", ",", "2", "0", "|", "E", "N", "D">>,
     <<"S", "T", "A", "R", "T", "|", "2", "|", "0", "|", "2", "|", "0", ",", "1", "0", "|", "2", ",", "2", "0", "|", "E", "N", "D">>,
     <<"S", "T", "A", "R", "T", "|", "2", "|", "0", "|", "2", "|", "1", ",", "1", "0", "|", "2", ";", "2", "0", "|", "E", "N", "D">>,
     <<"S", "T", "A", "R", "T", "|", "1", "|", "0", "|", "1", "|", "1", ",", "-", "1", "|", "E", "N", "D">>,
     <<"S", "T", "A", "R", "T", "|", "2", "|", "0", "|", "2", "|", "1", ",", "1", "0", "|", "2", ",", "2", "0">>,
     <<"S", "T", "A", "R", "T", "|", "2", "|", "0", "|", "2", "|", "1", ",", "1", "0", "|", "2", ",", "2", "0", "|">>,
     <<"S", "T", "A", "R", "T", "|", "2", "|", "0", "|", "2", "|", "1", ",", "1", "0", "|", "E", "N", "D">>,
     <<"S", "T", "A", "R", "T", "|", "2", "|", "0", "|", "1", "|", "1", ",", "1", "0", "|", "2", ",", "2", "0", "|", "E", "N", "D">>}

\* The verbs without fields, unknown verbs, blank lines, leading blanks.
OtherLines ==
    {
     <<"T", "E", "S", "T">>,
     <<"S", "T", "A", "T", "U", "S">>,
     <<"S", "T", "O", "P">>,
     <<"R", "E", "L", "O", "A", "D">>,
     <<"H", "E", "L", "P">>,
     <<"F", "O", "O">>,
     <<"s", "e", "t", "|", "1", "|", "1">>,
     <<"S", "E", "T">>,
     <<"S", "T", "A", "R", "T">>,
     <<" ">>,
     <<"\t", " ">>,
     <<" ", "S", "E", "T", "|", "1", "|", "1">>,
     <<" ", "F", "O", "O">>,
     <<"T", "E", "S", "T", "I", "N", "G">>,
     <<"G", "E", "T", "|", "1", "|", "j", "u", "n", "k">>}

Lines ==
    SetLines \cup AllLines \cup RowLines \cup ColLines \cup GetLines
    \cup GoodStartLines \cup BadStartLines \cup OtherLines

\* Every line ended by a newline, some by a carriage return instead.
TerminatedLines ==
    {Append(line, "\n") : line \in Lines} \cup {Append(line, "\r") : line \in OtherLines}

\* ------------------------------------------------------------ UartCommandHandler
\* cmdBuffer[index] = byte, index counted from 0.
WriteAt(buf, index, byte) ==
    IF index < Len(buf) THEN [buf EXCEPT ![index + 1] = byte]
    ELSE buf \o [i \in 1 .. index - Len(buf) |-> "NUL"] \o <<byte>>

\* The C string at the start of the buffer.
CString(buf) ==
    SubSeq(buf, 1, Min({i \in 1 .. Len(buf) : buf[i] = "NUL"} \cup {Len(buf) + 1}) - 1)

\* A sender puts one of lines on the wire.
SendLineFrom(lines) ==
    /\ pc = "idle"
    /\ wire = <<>>
    /\ ~cmdComplete
    /\ wire' \in lines
    /\ nLines' = nLines + 1
    /\ out' = <<>>
    /\ disp' = [NoDispatch EXCEPT !.line = wire']
    /\ trace' = <<>>
    /\ lastOp' = Call("none", 0, 0, FALSE)
    /\ UNCHANGED <<mapVars, drvVars, engineVars, pc, run, scope, nCalls,
                   rxVars, sequenceSteps, handlerSequence>>

SendLine == nLines + nCalls < MaxLines /\ SendLineFrom(TerminatedLines)

\* processByte, called from the polling loop with the next byte received.
ProcessByte ==
    /\ pc = "idle"
    /\ wire # <<>>
    /\ ~cmdComplete
    /\ wire' = Tail(wire)
    /\ LET byte == Head(wire)
       IN  IF cmdBufferIndex >= UART_CMD_BUFFER_SIZE - 1
           THEN /\ out' = Append(out, sendError("Buffer overflow"))
                /\ cmdBufferIndex' = 0
                /\ UNCHANGED <<cmdBuffer, cmdComplete>>
           ELSE IF byte \in {"\n", "\r"}
           THEN /\ IF cmdBufferIndex > 0
                   THEN /\ cmdBuffer' = WriteAt(cmdBuffer, cmdBufferIndex, "NUL")
                        /\ cmdComplete' = TRUE
                   ELSE UNCHANGED <<cmdBuffer, cmdComplete>>
                /\ UNCHANGED <<cmdBufferIndex, out>>
           ELSE /\ cmdBuffer' = WriteAt(cmdBuffer, cmdBufferIndex, byte)
                /\ cmdBufferIndex' = cmdBufferIndex + 1
                /\ UNCHANGED <<cmdComplete, out>>
    /\ UNCHANGED <<mapVars, drvVars, engineVars, pc, run, trace, lastOp, scope, nCalls,
                   sequenceSteps, handlerSequence, disp, nLines>>

\* ResetBuffer with the completion flag left as it is.
ResetBuffer_FlagKept ==
    /\ cmdBufferIndex' = 0
    /\ cmdComplete' = cmdComplete
    /\ cmdBuffer' = <<>>

\* The end of processCommands: index and flag cleared, buffer zeroed.
ResetBuffer ==
    /\ cmdBufferIndex' = 0
    /\ cmdComplete' = FALSE
    /\ cmdBuffer' = <<>>

\* The loop of UartCommandHandler::executeSequence: the steps written to
\* sequenceSteps up to the first electrode the driver refuses.
RECURSIVE BuildSteps(_, _, _, _)
BuildSteps(map, electrodeIds, durations, i) ==
    IF i > Len(electrodeIds) THEN [ok |-> TRUE, steps |-> <<>>]
    ELSE LET rc == getRowColFromElectrode(map, electrodeIds[i] % 256)
             rest == BuildSteps(map, electrodeIds, durations, i + 1)
         IN  IF rc.ret
             THEN [ok |-> rest.ok,
                   steps |-> <<Step(rc.row, rc.col, TRUE, durations[i])>> \o rest.steps]
             ELSE [ok |-> FALSE, steps |-> <<>>]

\* The first entries of the array replaced by the steps written.
Overwrite(array, steps) ==
    [i \in 1 .. Max({Len(array), Len(steps)}) |->
        IF i <= Len(steps) THEN steps[i] ELSE array[i]]

\* The driver call a parse function makes, for the calls that return at once:
\* the actuator state after it.
Acted(act) ==
    IF act.k = "setElectrodeByNumber"
    THEN setElectrodeByNumber(Drv, electrodeMap, act.a % 256, act.b)
    ELSE IF act.k = "setAllElectrodesHigh" THEN setAllElectrodesHigh(Drv)
    ELSE IF act.k = "setAllElectrodesLow" THEN setAllElectrodesLow(Drv)
    ELSE IF act.k = "setRowElectrodes" THEN setRowElectrodes(Drv, act.a % 256, act.b)
    ELSE IF act.k = "setColElectrodes" THEN setColElectrodes(Drv, act.a % 256, act.b)
    ELSE Drv

\* processCommands with a command pending: parseCommand on the buffer.  A
\* command that makes no blocking call is carried out and answered, and the
\* buffer reset, in this step; START and TEST enter the driver's loop.
ProcessCommands ==
    /\ pc = "idle"
    /\ cmdComplete
    /\ LET cmd == CString(cmdBuffer)
           o == parseCommand(cmd, sequenceRunning, electrodeMap, electrodeState)
           built == BuildSteps(electrodeMap, o.act.a.electrodeIds, o.act.a.durations, 1)
           seq == Sequence(Overwrite(sequenceSteps, built.steps), o.act.a.numSteps,
                           o.act.a.cycleReps, o.act.a.cycleDelay)
       IN  /\ lastOp' = Call("processCommands", 0, 0, FALSE)
           /\ scope' = "any"
           /\ IF o.act.k = "executeSequence"
              THEN /\ sequenceSteps' = Overwrite(sequenceSteps, built.steps)
                   /\ trace' = <<>>
                   /\ IF built.ok
                      THEN /\ handlerSequence' = seq
                           /\ out' = <<sendResponse("Executing sequence...\n", <<>>)>>
                           /\ pc' = "seq"
                           /\ run' = [caller |-> "uart", seq |-> seq, cycle |-> 0, step |-> 0]
                           /\ disp' = Dispatch(cmd, Snapshot, FALSE)
                           /\ UNCHANGED rxVars
                      ELSE /\ out' = <<sendError("Invalid electrode number"), sendOK>>
                           /\ disp' = Dispatch(cmd, Snapshot, TRUE)
                           /\ ResetBuffer
                           /\ UNCHANGED <<handlerSequence, pc, run>>
                   /\ UNCHANGED <<drvVars, engineVars>>
              ELSE IF o.act.k = "runElectrodeTest"
              THEN /\ out' = o.out
                   /\ trace' = <<>>
                   /\ pc' = "test"
                   /\ run' = [caller |-> "uart", seq |-> NullSequence, cycle |-> 0, step |-> 1]
                   /\ disp' = Dispatch(cmd, Snapshot, FALSE)
                   /\ UNCHANGED <<drvVars, engineVars, rxVars, sequenceSteps, handlerSequence>>
              ELSE /\ out' = o.out
                   /\ trace' = IF o.act.k = "none" THEN <<>>
                               ELSE <<Ev(o.act.k, o.act.a, 0, o.act.b)>>
                   /\ DrvBecomes(Acted(o.act))
                   /\ IF o.act.k = "stopSequence"
                      THEN EngineBecomes(stopSequence(Engine)) /\ UNCHANGED accepted
                      ELSE UNCHANGED engineVars
                   /\ disp' = Dispatch(cmd, Snapshot, TRUE)
                   /\ ResetBuffer
                   /\ UNCHANGED <<pc, run, sequenceSteps, handlerSequence>>
    /\ UNCHANGED <<mapVars, nCalls, wire, nLines>>

\* ArrayDriver::executeSequence returns to the handler: "Sequence complete",
\* then OK from parseElectrodeCommand, then processCommands resets the buffer.
UartSeqReturn ==
    /\ pc = "seq"
    /\ run.caller = "uart"
    /\ run.cycle >= run.seq.cycleCount
    /\ pc' = "idle"
    /\ run' = NoRun
    /\ out' = out \o <<sendResponse("Sequence complete\n", <<>>), sendOK>>
    /\ disp' = [disp EXCEPT !.done = TRUE]
    /\ ResetBuffer
    /\ UNCHANGED <<mapVars, drvVars, engineVars, trace, lastOp, scope, nCalls,
                   sequenceSteps, handlerSequence, wire, nLines>>

\* One pass of the loop of runElectrodeTest, up to the end of HAL_Delay: the
\* electrode high, then 100 ms.
TestStep ==
    /\ pc = "test"
    /\ run.step <= NUM_ELECTRODES
    /\ DrvBecomes(setElectrodeByNumber(Drv, electrodeMap, run.step, TRUE))
    /\ trace' = trace \o <<Ev("setElectrodeByNumber", run.step, 0, TRUE), EvDelay(100)>>
    /\ pc' = "testHigh"
    /\ UNCHANGED <<mapVars, engineVars, run, lastOp, scope, nCalls, uartVars>>

\* TestStepLow leaving the electrode on.
TestStepLow_LeftOn ==
    /\ pc = "testHigh"
    /\ trace' = Append(trace, Ev("setElectrodeByNumber", run.step, 0, FALSE))
    /\ run' = [run EXCEPT !.step = @ + 1]
    /\ pc' = "test"
    /\ UNCHANGED <<mapVars, drvVars, engineVars, lastOp, scope, nCalls, uartVars>>

\* The rest of the pass: the electrode low, and electrodeNum++.
TestStepLow ==
    /\ pc = "testHigh"
    /\ DrvBecomes(setElectrodeByNumber(Drv, electrodeMap, run.step, FALSE))
    /\ trace' = Append(trace, Ev("setElectrodeByNumber", run.step, 0, FALSE))
    /\ run' = [run EXCEPT !.step = @ + 1]
    /\ pc' = "test"
    /\ UNCHANGED <<mapVars, engineVars, lastOp, scope, nCalls, uartVars>>

\* runElectrodeTest returns: "Test complete", OK, and the buffer reset.
TestReturn ==
    /\ pc = "test"
    /\ run.step > NUM_ELECTRODES
    /\ pc' = "idle"
    /\ run' = NoRun
    /\ out' = out \o <<sendResponse("Test complete\n", <<>>), sendOK>>
    /\ disp' = [disp EXCEPT !.done = TRUE]
    /\ ResetBuffer
    /\ UNCHANGED <<mapVars, drvVars, engineVars, trace, lastOp, scope, nCalls,
                   sequenceSteps, handlerSequence, wire, nLines>>

\* The firmware's main loop: the driver constructed from one of the mapping
\* sources and initialised, the handler initialised; then lines arrive and
\* are polled in byte by byte, and between lines the application may run a
\* sequence through the driver itself.
UartSources == BootSources \cup { <<2, 2, [row |-> 200, col |-> 7]>> }

InitUart ==
    /\ mapSource \in UartSources
    /\ electrodeMap = ConstructedMaps[mapSource]
    /\ electrodeState = init([es |-> AllCells(FALSE), rl |-> [r \in Rows |-> FALSE],
                              cl |-> [c \in Cols |-> FALSE], w |-> 0]).es
    /\ rowLevel = [r \in Rows |-> FALSE]
    /\ colLevel = [c \in Cols |-> TRUE]
    /\ sequenceRunning = FALSE
    /\ currentStep = 0
    /\ stepStartTime = 0
    /\ currentSequence = NullSequence
    /\ accepted = NullSequence
    /\ pc = "idle"
    /\ run = NoRun
    /\ trace = <<>>
    /\ lastOp = Call("init", 0, 0, FALSE)
    /\ scope = "matrix"
    /\ nCalls = 0
    /\ InitHandler

BetweenLines == wire = <<>> /\ ~cmdComplete /\ nLines + nCalls < MaxLines

NextUart ==
    \/ SendLine
    \/ ProcessByte
    \/ ProcessCommands
    \/ SeqStep
    \/ SeqCycleEnd
    \/ UartSeqReturn
    \/ TestStep
    \/ TestStepLow
    \/ TestReturn
    \/ BetweenLines /\ DoExecuteSequence
    \/ SeqReturn

SpecUart == InitUart /\ [][NextUart]_vars

\* ------------------------------------------------------------ sequence engine
\* The application on the default map: it starts sequences without blocking,
\* asks whether one runs, stops it, runs one to the end, switches electrodes,
\* and polls in one command line.
EngineLines ==
    {<<"S", "T", "O", "P">> \o <<"\n">>,
     <<"S", "T", "A", "T", "U", "S">> \o <<"\n">>,
     <<"A", "L", "L", "|", "1">> \o <<"\n">>}

SendEngineLine == nLines < MaxLines /\ SendLineFrom(EngineLines)

InitEngine ==
    /\ InitUart
    /\ mapSource = <<1, 1, [row |-> 0, col |-> 0]>>

NextEngine ==
    \/ DoExecuteSequenceAsync
    \/ DoIsSequenceRunning
    \/ DoStopSequence
    \/ DoSetAllElectrodesHigh
    \/ DoExecuteSequence
    \/ SeqStep
    \/ SeqCycleEnd
    \/ SeqReturn
    \/ SendEngineLine
    \/ ProcessByte
    \/ ProcessCommands

SpecEngine == InitEngine /\ [][NextEngine]_vars

\* The main loop asks isSequenceRunning() at tick: a call that may be made
\* any number of times.
PollSequence ==
    \E tick \in TickArgs :
        /\ pc = "idle"
        /\ lastOp' = [Call("isSequenceRunning", NullSequence, tick, Engine)
                         EXCEPT !.ret = isSequenceRunning(Engine)]
        /\ UNCHANGED <<mapVars, drvVars, engineVars, pc, run, trace, scope, nCalls, uartVars>>

\* Sequences are started and then polled for ever, and never stopped; the
\* loop keeps polling (weak fairness), and so does every step the driver
\* could take by itself, of which it has none.
InitPolled ==
    /\ mapSource = <<1, 1, [row |-> 0, col |-> 0]>>
    /\ electrodeMap = ConstructedMaps[mapSource]
    /\ electrodeState = AllCells(FALSE)
    /\ rowLevel = [r \in Rows |-> FALSE]
    /\ colLevel = [c \in Cols |-> TRUE]
    /\ sequenceRunning = FALSE
    /\ currentStep = 0
    /\ stepStartTime = 0
    /\ currentSequence = NullSequence
    /\ accepted = NullSequence
    /\ pc = "idle"
    /\ run = NoRun
    /\ trace = <<>>
    /\ lastOp = Call("init", NullSequence, 0, Engine)
    /\ scope = "matrix"
    /\ nCalls = 0
    /\ InitHandler

NextPolled ==
    \/ DoExecuteSequenceAsync
    \/ PollSequence

SpecPolled == InitPolled /\ [][NextPolled]_vars /\ WF_vars(NextPolled)

\* ------------------------------------------------------------ queries
\* The commands that ask and do not act, and lines no command matches, sent
\* to a handler whose driver the application has first switched electrodes
\* on and started a sequence with.
QueryLines ==
    {Append(line, "\n") : line \in
        GetLines \cup {<<"S", "T", "A", "T", "U", "S">>,
                       <<"R", "E", "L", "O", "A", "D">>,
                       <<"R", "E", "L", "O", "A", "D", " ", "n", "o", "w">>,
                       <<"H", "E", "L", "P">>,
                       <<"F", "O", "O">>,
                       <<"S", "E", "T">>,
                       <<"g", "e", "t", "|", "1">>}}

SendQueryLine == nLines < MaxLines /\ SendLineFrom(QueryLines)

\* No line has been sent yet.
BeforeLines == nLines = 0

NextQuery ==
    \/ BeforeLines /\ DoSetAllElectrodesHigh
    \/ BeforeLines /\ DoSetElectrodeByNumber
    \/ BeforeLines /\ DoExecuteSequenceAsync
    \/ SendQueryLine
    \/ ProcessByte
    \/ ProcessCommands

SpecQuery == InitUart /\ [][NextQuery]_vars

\* ------------------------------------------------------------ bytes from the interrupt
\* processByte called from the UART interrupt, as the header offers, while
\* the main loop calls processCommands: a byte may arrive between any two
\* statements of processCommands. parseCommand is one step (the lines of this
\* specification are commands that return at once), and the three statements
\* of the reset are one step each. pc is the main loop's position; trace
\* also records each parseCommand with the command it was given.
IrqLines ==
    {<<"A", "L", "L", "|", "1", "\n">>,
     <<"A", "L", "L", "|", "0", "\r", "\n">>,
     <<"S", "T", "A", "T", "U", "S", "\r">>,
     <<"\n">>}

RECURSIVE Streams(_)
Streams(n) ==
    IF n = 0 THEN {<<>>} ELSE {line \o rest : line \in IrqLines, rest \in Streams(n - 1)}

\* The test processByte makes of cmdBufferIndex when it is given a line
\* terminator, here passing whatever the index is.
CommandInBuffer_Always(index) == TRUE

CommandInBuffer(index) == index > 0

\* The interrupt handler: processByte(byte) on the next byte of the stream.
IrqProcessByte ==
    /\ wire # <<>>
    /\ wire' = Tail(wire)
    /\ LET byte == Head(wire)
       IN  IF cmdBufferIndex >= UART_CMD_BUFFER_SIZE - 1
           THEN /\ out' = Append(out, sendError("Buffer overflow"))
                /\ cmdBufferIndex' = 0
                /\ UNCHANGED <<cmdBuffer, cmdComplete>>
           ELSE IF byte \in {"\n", "\r"}
           THEN /\ IF CommandInBuffer(cmdBufferIndex)
                   THEN /\ cmdBuffer' = WriteAt(cmdBuffer, cmdBufferIndex, "NUL")
                        /\ cmdComplete' = TRUE
                   ELSE UNCHANGED <<cmdBuffer, cmdComplete>>
                /\ UNCHANGED <<cmdBufferIndex, out>>
           ELSE /\ cmdBuffer' = WriteAt(cmdBuffer, cmdBufferIndex, byte)
                /\ cmdBufferIndex' = cmdBufferIndex + 1
                /\ UNCHANGED <<cmdComplete, out>>
    /\ UNCHANGED <<mapVars, drvVars, engineVars, pc, run, trace, lastOp, scope, nCalls,
                   sequenceSteps, handlerSequence, disp, nLines>>

\* processCommands up to the return of parseCommand(cmdBuffer).
MainParse ==
    /\ pc = "idle"
    /\ cmdComplete
    /\ LET cmd == CString(cmdBuffer)
           o == parseCommand(cmd, sequenceRunning, electrodeMap, electrodeState)
       IN  /\ o.act.k \notin {"executeSequence", "runElectrodeTest"}
           /\ out' = out \o o.out
           /\ trace' = Append(trace, Ev("parseCommand", cmd, 0, FALSE))
           /\ DrvBecomes(Acted(o.act))
           /\ IF o.act.k = "stopSequence"
              THEN EngineBecomes(stopSequence(Engine)) /\ UNCHANGED accepted
              ELSE UNCHANGED engineVars
    /\ pc' = "parsed"
    /\ lastOp' = Call("processCommands", 0, 0, FALSE)
    /\ UNCHANGED <<mapVars, run, scope, nCalls, rxVars, sequenceSteps, handlerSequence,
                   wire, disp, nLines>>

\* cmdBufferIndex = 0;
MainResetIndex ==
    /\ pc = "parsed"
    /\ cmdBufferIndex' = 0
    /\ pc' = "indexReset"
    /\ UNCHANGED <<mapVars, drvVars, engineVars, run, trace, lastOp, scope, nCalls,
                   cmdBuffer, cmdComplete, sequenceSteps, handlerSequence, wire, out,
                   disp, nLines>>

\* cmdComplete = false;
MainResetFlag ==
    /\ pc = "indexReset"
    /\ cmdComplete' = FALSE
    /\ pc' = "flagReset"
    /\ UNCHANGED <<mapVars, drvVars, engineVars, run, trace, lastOp, scope, nCalls,
                   cmdBuffer, cmdBufferIndex, sequenceSteps, handlerSequence, wire, out,
                   disp, nLines>>

\* memset(cmdBuffer, 0, sizeof(cmdBuffer)); and the return.
MainResetBuffer ==
    /\ pc = "flagReset"
    /\ cmdBuffer' = <<>>
    /\ pc' = "idle"
    /\ UNCHANGED <<mapVars, drvVars, engineVars, run, trace, lastOp, scope, nCalls,
                   cmdBufferIndex, cmdComplete, sequenceSteps, handlerSequence, wire, out,
                   disp, nLines>>

\* The driver and the handler initialised, and a stream of MaxLines + 1
\* lines about to arrive; disp.line keeps the whole stream.
InitIrq ==
    /\ mapSource = <<1, 1, [row |-> 0, col |-> 0]>>
    /\ electrodeMap = ConstructedMaps[mapSource]
    /\ electrodeState = AllCells(FALSE)
    /\ rowLevel = [r \in Rows |-> FALSE]
    /\ colLevel = [c \in Cols |-> TRUE]
    /\ sequenceRunning = FALSE
    /\ currentStep = 0
    /\ stepStartTime = 0
    /\ currentSequence = NullSequence
    /\ accepted = NullSequence
    /\ pc = "idle"
    /\ run = NoRun
    /\ trace = <<>>
    /\ lastOp = Call("none", 0, 0, FALSE)
    /\ scope = "matrix"
    /\ nCalls = 0
    /\ cmdBuffer = <<>>
    /\ cmdBufferIndex = 0
    /\ cmdComplete = FALSE
    /\ sequenceSteps = <<>>
    /\ handlerSequence = NullSequence
    /\ wire \in Streams(MaxLines + 1)
    /\ out = <<>>
    /\ disp = [NoDispatch EXCEPT !.line = wire]
    /\ nLines = MaxLines + 1

NextIrq ==
    \/ IrqProcessByte
    \/ MainParse
    \/ MainResetIndex
    \/ MainResetFlag
    \/ MainResetBuffer

SpecIrq == InitIrq /\ [][NextIrq]_vars

\* ------------------------------------------------------------ the protocol alone
\* The driver reached only through the handler: a START or ALL line followed
\* by STOP or STATUS, the bytes given to processByte by the interrupt at any
\* moment, the blocking sequence of START included, while the main loop
\* calls processCommands.
ProtocolStreams ==
    {Append(first, "\n") \o Append(second, "\n") :
        first \in {StartLine(2, 5, << <<1, 10>>, <<2, 20>> >>), <<"A", "L", "L", "|", "1">>},
        second \in {<<"S", "T", "O", "P">>, <<"S", "T", "A", "T", "U", "S">>}}

InitProtocol ==
    /\ mapSource = <<1, 1, [row |-> 0, col |-> 0]>>
    /\ electrodeMap = ConstructedMaps[mapSource]
    /\ electrodeState = AllCells(FALSE)
    /\ rowLevel = [r \in Rows |-> FALSE]
    /\ colLevel = [c \in Cols |-> TRUE]
    /\ sequenceRunning = FALSE
    /\ currentStep = 0
    /\ stepStartTime = 0
    /\ currentSequence = NullSequence
    /\ accepted = NullSequence
    /\ pc = "idle"
    /\ run = NoRun
    /\ trace = <<>>
    /\ lastOp = Call("none", 0, 0, FALSE)
    /\ scope = "matrix"
    /\ nCalls = 0
    /\ cmdBuffer = <<>>
    /\ cmdBufferIndex = 0
    /\ cmdComplete = FALSE
    /\ sequenceSteps = <<>>
    /\ handlerSequence = NullSequence
    /\ wire \in ProtocolStreams
    /\ out = <<>>
    /\ disp = [NoDispatch EXCEPT !.line = wire]
    /\ nLines = 2

NextProtocol ==
    \/ IrqProcessByte
    \/ ProcessCommands
    \/ SeqStep
    \/ SeqCycleEnd
    \/ UartSeqReturn

SpecProtocol == InitProtocol /\ [][NextProtocol]_vars

\* ------------------------------------------------------------ two electrodes
\* A host that sets one electrode, then writes to another, then asks for the
\* first: SET|a|s, one or more SET|b|t, GET|a, polled in byte by byte by the
\* main loop, on a driver constructed from the default map or from both
\* mapping files.
PairNumbers == {1, 2, NUM_ELECTRODES}

SetLine(n, st) == <<"S", "E", "T", "|">> \o Itoa(n) \o Bar \o <<st, "\n">>

GetLine(n) == <<"G", "E", "T", "|">> \o Itoa(n) \o <<"\n">>

\* Every run of k SET lines addressed to electrode n.
RECURSIVE Writes(_, _)
Writes(n, k) ==
    IF k = 0 THEN {<<>>}
    ELSE {SetLine(n, st) \o rest : st \in {"0", "1"}, rest \in Writes(n, k - 1)}

PairStreams ==
    UNION {{SetLine(a, st) \o w \o GetLine(a) :
               st \in {"0", "1"},
               w \in UNION {Writes(b, k) : b \in PairNumbers \ {a}, k \in 1 .. MaxLines + 1}} :
           a \in PairNumbers}

InitPair ==
    /\ mapSource \in UartSources
    /\ electrodeMap = ConstructedMaps[mapSource]
    /\ electrodeState = AllCells(FALSE)
    /\ rowLevel = [r \in Rows |-> FALSE]
    /\ colLevel = [c \in Cols |-> TRUE]
    /\ sequenceRunning = FALSE
    /\ currentStep = 0
    /\ stepStartTime = 0
    /\ currentSequence = NullSequence
    /\ accepted = NullSequence
    /\ pc = "idle"
    /\ run = NoRun
    /\ trace = <<>>
    /\ lastOp = Call("none", 0, 0, FALSE)
    /\ scope = "matrix"
    /\ nCalls = 0
    /\ cmdBuffer = <<>>
    /\ cmdBufferIndex = 0
    /\ cmdComplete = FALSE
    /\ sequenceSteps = <<>>
    /\ handlerSequence = NullSequence
    /\ wire \in PairStreams
    /\ out = <<>>
    /\ disp = [NoDispatch EXCEPT !.line = wire]
    /\ nLines = MaxLines + 3

NextPair ==
    \/ ProcessByte
    \/ ProcessCommands

SpecPair == InitPair /\ [][NextPair]_vars

\* ------------------------------------------------------------ init() and the engine
\* The driver from construction, with init() callable at any moment between
\* calls of the engine and of the actuator.
NextBoot ==
    \/ DoInit
    \/ DoSetElectrode
    \/ DoSetAllElectrodesHigh
    \/ DoExecuteSequenceAsync
    \/ DoStopSequence

SpecBoot == Init /\ [][NextBoot]_vars

\* ------------------------------------------------------------ pin level
\* setElectrode at the level of its stores. setRowColAtomic writes the BSRR
\* of the row's port and then the BSRR of the column's port: two stores to two
\* registers (the rows are on GPIOA and GPIOB, the columns on GPIOC and GPIOD),
\* each taking effect on its line as it is made. Interrupts are off between
\* the two, which keeps other code from running there and does not hold the
\* first line back. The bitmap is written after setRowColAtomic has returned.
\* run holds the call under way.
PinRun(row, col, state) == [caller |-> "setElectrode", row |-> row, col |-> col, state |-> state]

\* The bounds check, and for indices in range the store to the row's port.
SetElectrodeRowStore ==
    /\ pc = "idle"
    /\ nCalls < MaxCalls
    /\ \E row \in RowArgs, col \in ColArgs, state \in BOOLEAN :
        /\ lastOp' = [Call("setElectrode", row, col, state) EXCEPT
                          !.writes = IF row >= NUM_ROWS \/ col >= NUM_COLS THEN 0 ELSE 1,
                          !.same = row >= NUM_ROWS \/ col >= NUM_COLS \/ rowLevel[row] = state]
        /\ IF row >= NUM_ROWS \/ col >= NUM_COLS
           THEN UNCHANGED <<rowLevel, pc, run>>
           ELSE /\ rowLevel' = [rowLevel EXCEPT ![row] = state]
                /\ pc' = "rowStored"
                /\ run' = PinRun(row, col, state)
    /\ scope' = Scope("setElectrode")
    /\ nCalls' = nCalls + 1
    /\ trace' = <<>>
    /\ UNCHANGED <<mapVars, electrodeState, colLevel, engineVars, uartVars>>

\* The store to the column's port.
SetElectrodeColStore ==
    /\ pc = "rowStored"
    /\ colLevel' = [colLevel EXCEPT ![run.col] = ~run.state]
    /\ pc' = "colStored"
    /\ lastOp' = [lastOp EXCEPT !.writes = 2,
                                !.same = @ /\ colLevel[run.col] = ~run.state]
    /\ UNCHANGED <<mapVars, electrodeState, rowLevel, engineVars, run, trace, scope,
                   nCalls, uartVars>>

\* SetElectrodeReturn without the bitmap update.
SetElectrodeReturn_StateSkipped ==
    /\ pc = "colStored"
    /\ pc' = "idle"
    /\ run' = NoRun
    /\ UNCHANGED <<mapVars, drvVars, engineVars, lastOp, trace, scope, nCalls, uartVars>>

\* The bitmap update, and the return.
SetElectrodeReturn ==
    /\ pc = "colStored"
    /\ electrodeState' = [electrodeState EXCEPT ![run.row][run.col] = run.state]
    /\ pc' = "idle"
    /\ run' = NoRun
    /\ lastOp' = [lastOp EXCEPT !.same = @ /\ electrodeState[run.row][run.col] = run.state]
    /\ UNCHANGED <<mapVars, rowLevel, colLevel, engineVars, trace, scope, nCalls, uartVars>>

\* setAllElectrodesHigh (state TRUE) and setAllElectrodesLow (state FALSE) up
\* to __enable_irq(): the loop of row stores and the loop of column stores.
SetAllPinStores ==
    /\ pc = "idle"
    /\ nCalls < MaxCalls
    /\ \E state \in BOOLEAN :
        /\ rowLevel' = [r \in Rows |-> state]
        /\ colLevel' = [c \in Cols |-> ~state]
        /\ run' = PinRun(0, 0, state)
        /\ lastOp' = [Call(IF state THEN "setAllElectrodesHigh" ELSE "setAllElectrodesLow",
                           0, 0, state) EXCEPT
                          !.writes = NUM_ROWS + NUM_COLS,
                          !.same = rowLevel = [r \in Rows |-> state]
                                   /\ colLevel = [c \in Cols |-> ~state]]
        /\ scope' = Scope(IF state THEN "setAllElectrodesHigh" ELSE "setAllElectrodesLow")
    /\ pc' = "allStored"
    /\ nCalls' = nCalls + 1
    /\ trace' = <<>>
    /\ UNCHANGED <<mapVars, electrodeState, engineVars, uartVars>>

\* The loops over electrodeState that end both functions.
SetAllStateUpdate ==
    /\ pc = "allStored"
    /\ electrodeState' = AllCells(run.state)
    /\ pc' = "idle"
    /\ run' = NoRun
    /\ lastOp' = [lastOp EXCEPT !.same = @ /\ electrodeState = AllCells(run.state)]
    /\ UNCHANGED <<mapVars, rowLevel, colLevel, engineVars, trace, scope, nCalls, uartVars>>

InitPins == InitEngine

NextPins ==
    \/ SetElectrodeRowStore
    \/ SetElectrodeColStore
    \/ SetElectrodeReturn
    \/ SetAllPinStores
    \/ SetAllStateUpdate

SpecPins == InitPins /\ [][NextPins]_vars

\* ------------------------------------------------------------ lines at the buffer's cap
Filler(n) == [i \in 1 .. n |-> "a"]

\* Lines of UART_CMD_BUFFER_SIZE - 1 bytes (the most the buffer holds before
\* its NUL), of one byte more, and of one byte more followed by the text of a
\* command; and two lines that fit.
CapLines ==
    {Append(Filler(UART_CMD_BUFFER_SIZE - 1), "\n"),
     Append(Filler(UART_CMD_BUFFER_SIZE), "\n"),
     Filler(UART_CMD_BUFFER_SIZE) \o <<"A", "L", "L", "|", "1">> \o <<"\n">>,
     <<"S", "E", "T", "|", "1", "|", "1">> \o <<"\n">>,
     <<"A", "L", "L", "|", "0">> \o <<"\n">>}

SendCapLine == nLines < MaxLines + 1 /\ SendLineFrom(CapLines)

\* The handler on the default map, polled with lines up to and past the cap
\* of its buffer: the first line is under way, all but the last bytes the
\* buffer has room for received and stored, the rest of the line on the wire.
Received == UART_CMD_BUFFER_SIZE - 8

InitCap ==
    /\ mapSource = <<1, 1, [row |-> 0, col |-> 0]>>
    /\ electrodeMap = ConstructedMaps[mapSource]
    /\ electrodeState = AllCells(FALSE)
    /\ rowLevel = [r \in Rows |-> FALSE]
    /\ colLevel = [c \in Cols |-> TRUE]
    /\ sequenceRunning = FALSE
    /\ currentStep = 0
    /\ stepStartTime = 0
    /\ currentSequence = NullSequence
    /\ accepted = NullSequence
    /\ pc = "idle"
    /\ run = NoRun
    /\ trace = <<>>
    /\ lastOp = Call("none", 0, 0, FALSE)
    /\ scope = "matrix"
    /\ nCalls = 0
    /\ \E line \in {l \in CapLines : Len(l) > Received} :
          /\ cmdBuffer = SubSeq(line, 1, Received)
          /\ cmdBufferIndex = Received
          /\ wire = SubSeq(line, Received + 1, Len(line))
          /\ disp = [NoDispatch EXCEPT !.line = line]
    /\ cmdComplete = FALSE
    /\ sequenceSteps = <<>>
    /\ handlerSequence = NullSequence
    /\ out = <<>>
    /\ nLines = 1

NextCap ==
    \/ SendCapLine
    \/ ProcessByte
    \/ ProcessCommands

SpecCap == InitCap /\ [][NextCap]_vars

\* ------------------------------------------------------------ claims
CellAgrees(r, c) ==
    /\ electrodeState[r][c] => (rowLevel[r] /\ ~colLevel[c])
    /\ ~electrodeState[r][c] => (~rowLevel[r] /\ colLevel[c])

InRange(row, col) == row \in Rows /\ col \in Cols

\* C1: after construction, whatever the mapping files hold, every electrode
\* number 1..140 resolves (returns true) to a row in 0..9 and a column in
\* 0..13; every other number does not resolve, and setElectrodeByNumber with
\* it writes no pin and changes no bitmap cell.
C1_EveryNumberResolvesInRange ==
    /\ \A n \in 1 .. NUM_ELECTRODES :
          LET rc == getRowColFromElectrode(electrodeMap, n)
          IN  rc.ret /\ rc.row \in Rows /\ rc.col \in Cols
    /\ \A n \in UInt8 \ (1 .. NUM_ELECTRODES) :
          ~getRowColFromElectrode(electrodeMap, n).ret
    /\ (lastOp.op = "setElectrodeByNumber" /\ lastOp.a \notin 1 .. NUM_ELECTRODES)
          => (lastOp.writes = 0 /\ lastOp.same)

\* An electrode whose chain the two files cannot resolve: it is not a key of
\* source 1, or no key of source 2 names its external pin.
Unresolvable(n) ==
    \/ n \notin ElectrodeMapFiles[mapSource[1]].keys
    \/ ~\E cell \in PinMapFiles[mapSource[2]].keys : ColumnMajorPin[cell] = ReversePin[n]

\* C2: when both sources load, every electrode whose chain cannot be
\* resolved is mapped to the default address ((n-1)/14, (n-1)%14); when a
\* source is absent, every electrode is.
C2_UnresolvedEntriesGetDefault ==
    LET f1 == ElectrodeMapFiles[mapSource[1]]
        f2 == PinMapFiles[mapSource[2]]
    IN  \A n \in 1 .. NUM_ELECTRODES :
           (~f1.exists \/ ~f2.exists \/ (f1.object /\ f2.object /\ Unresolvable(n)))
              => electrodeMap[n - 1] = [row |-> (n - 1) \div 14, col |-> (n - 1) % 14]

\* C3 as stated: after init() and any sequence of matrix calls, every cell of
\* the bitmap agrees with the levels of its row and column line.
C3_EveryCellAgreesWithPins ==
    scope = "matrix" => \A r \in Rows, c \in Cols : CellAgrees(r, c)

\* C3, amended: the cells written by the most recent call agree with the
\* levels of their lines: the cell of setElectrode, the row of
\* setRowElectrodes, the column of setColElectrodes, the last cell (9, 13) of
\* setPattern, and every cell after init() and setAllElectrodesHigh/Low.
C3_LastWrittenCellsAgreeWithPins ==
    /\ (lastOp.op = "setElectrode" /\ InRange(lastOp.a, lastOp.b))
          => (electrodeState[lastOp.a][lastOp.b] = lastOp.c /\ CellAgrees(lastOp.a, lastOp.b))
    /\ (lastOp.op = "setRowElectrodes" /\ lastOp.a \in Rows)
          => \A c \in Cols : electrodeState[lastOp.a][c] = lastOp.c /\ CellAgrees(lastOp.a, c)
    /\ (lastOp.op = "setColElectrodes" /\ lastOp.b \in Cols)
          => \A r \in Rows : electrodeState[r][lastOp.b] = lastOp.c /\ CellAgrees(r, lastOp.b)
    /\ lastOp.op = "setPattern"
          => (electrodeState = lastOp.a /\ CellAgrees(NUM_ROWS - 1, NUM_COLS - 1))
    /\ lastOp.op \in {"init", "setAllElectrodesHigh", "setAllElectrodesLow"}
          => \A r \in Rows, c \in Cols : CellAgrees(r, c)

\* A cell was turned on after init(), next to cells that are off.
C3_Witness ==
    /\ scope = "matrix"
    /\ lastOp.op = "setElectrode" /\ InRange(lastOp.a, lastOp.b) /\ lastOp.c
    /\ \E c \in Cols : ~electrodeState[lastOp.a][c]

\* C4: setElectrode(row, col, s) with row, col in range, followed at once by
\* getElectrodeState(row, col), gives s; with row >= 10 or col >= 14 it leaves
\* every bitmap cell and every line as it was.
C4_SetThenGet ==
    lastOp.op = "setElectrode" =>
        IF InRange(lastOp.a, lastOp.b)
        THEN getElectrodeState(electrodeState, lastOp.a, lastOp.b) = lastOp.c
        ELSE lastOp.same /\ lastOp.writes = 0

\* A cell that was on has been turned off by setElectrode.
C4_Witness ==
    /\ lastOp.op = "setElectrode" /\ InRange(lastOp.a, lastOp.b)
    /\ ~lastOp.c /\ ~lastOp.same /\ lastOp.writes = 2

\* C5: setAllElectrodesHigh() leaves getPattern() all true, every row line
\* high and every column line low; setAllElectrodesLow() leaves it all false,
\* every row line low and every column line high.
C5_SetAllThenGetPattern ==
    /\ lastOp.op = "setAllElectrodesHigh"
          => /\ getPattern(electrodeState) = AllCells(TRUE)
             /\ \A r \in Rows : rowLevel[r]
             /\ \A c \in Cols : ~colLevel[c]
    /\ lastOp.op = "setAllElectrodesLow"
          => /\ getPattern(electrodeState) = AllCells(FALSE)
             /\ \A r \in Rows : ~rowLevel[r]
             /\ \A c \in Cols : colLevel[c]

\* setAllElectrodesHigh() was called on a bitmap holding both values.
C5_Witness ==
    /\ lastOp.op = "setAllElectrodesHigh" /\ ~lastOp.same
    /\ nCalls >= 2

\* ------------------------------------------------------------ command lines, read strictly
\* The protocol's grammar, independent of the parse functions: a line is a
\* verb and fields separated by "|", a numeric field is a non-empty string of
\* decimal digits.
RECURSIVE SplitOn(_, _)
SplitOn(s, ch) ==
    IF \A i \in 1 .. Len(s) : s[i] # ch THEN <<s>>
    ELSE LET i == Min({j \in 1 .. Len(s) : s[j] = ch})
         IN  <<SubSeq(s, 1, i - 1)>> \o SplitOn(SubSeq(s, i + 1, Len(s)), ch)

IsDecimal(f) == f # <<>> /\ \A i \in 1 .. Len(f) : isdigit(f[i])

RECURSIVE Dec(_)
Dec(f) == IF f = <<>> THEN 0 ELSE 10 * Dec(SubSeq(f, 1, Len(f) - 1)) + DigitVal(f[Len(f)])

DecimalIn(f, i, lo, hi) == i <= Len(f) /\ IsDecimal(f[i]) /\ Dec(f[i]) \in lo .. hi

StartsWith(s, lit) == Len(s) >= Len(lit) /\ SubSeq(s, 1, Len(lit)) = lit

RECURSIVE Strip(_)
Strip(s) == IF s # <<>> /\ Head(s) \in {" ", "\t"} THEN Strip(Tail(s)) ELSE s

IsPrefix(s, t) == Len(s) <= Len(t) /\ SubSeq(t, 1, Len(s)) = s

MutatingPrefixes ==
    {<<"S", "T", "A", "R", "T", "|">>,
     <<"S", "E", "T", "|">>,
     <<"A", "L", "L", "|">>,
     <<"R", "O", "W", "|">>,
     <<"C", "O", "L", "|">>,
     <<"T", "E", "S", "T">>,
     <<"S", "T", "O", "P">>}

KnownPrefixes ==
    MutatingPrefixes
    \cup {<<"S", "T", "A", "T", "U", "S">>,
          <<"G", "E", "T", "|">>,
          <<"R", "E", "L", "O", "A", "D">>,
          <<"H", "E", "L", "P">>}

\* processCommands was the last call made.
Dispatched == lastOp.op = "processCommands"

Done == Dispatched /\ disp.done

\* The dispatch has made no driver call and left the actuator and the engine
\* as it found them.
Untouched == trace = <<>> /\ Snapshot = disp.before

Replies(k) == {i \in 1 .. Len(out) : out[i].k = k}

\* A START line as the protocol defines it: REPS in 1..1000, DELAY and STEPS
\* decimal, STEPS in 1..MAX_STEPS, exactly STEPS steps "id,duration" with id
\* in 1..140, then END.
WellFormedStep(f) ==
    LET part == SplitOn(f, ",")
    IN  Len(part) = 2 /\ DecimalIn(part, 1, 1, NUM_ELECTRODES) /\ IsDecimal(part[2])

WellFormedStart(cmd) ==
    LET f == SplitOn(cmd, "|")
    IN  /\ Len(f) >= 6
        /\ f[1] = <<"S", "T", "A", "R", "T">>
        /\ DecimalIn(f, 2, 1, 1000)
        /\ IsDecimal(f[3])
        /\ DecimalIn(f, 4, 1, MAX_STEPS)
        /\ Len(f) = Dec(f[4]) + 5
        /\ f[Len(f)] = <<"E", "N", "D">>
        /\ \A i \in 5 .. Len(f) - 1 : WellFormedStep(f[i])

\* cycles repetitions of cycle, gap between one and the next.
RECURSIVE Cycles(_, _, _)
Cycles(cycle, gap, cycles) ==
    IF cycles = 0 THEN <<>>
    ELSE IF cycles = 1 THEN cycle
    ELSE cycle \o <<gap>> \o Cycles(cycle, gap, cycles - 1)

RECURSIVE StepCalls(_, _)
StepCalls(steps, n) ==
    IF n = 0 THEN <<>>
    ELSE StepCalls(steps, n - 1)
         \o <<EvSetElectrode(steps[n].row, steps[n].col, steps[n].state),
              EvDelay(steps[n].duration_ms)>>

\* What a well-formed START line asks for: each step's electrode, resolved
\* through the map, switched on and held, cycle after cycle.
StartCalls(cmd) ==
    LET f == SplitOn(cmd, "|")
        N == Dec(f[4])
        asked == [i \in 1 .. N |->
                    LET part == SplitOn(f[4 + i], ",")
                        cell == electrodeMap[Dec(part[1]) - 1]
                    IN  Step(cell.row, cell.col, TRUE, Dec(part[2]))]
    IN  Cycles(StepCalls(asked, N), EvDelay(Dec(f[3])), Dec(f[2]))

SequenceCalls(seq) ==
    Cycles(StepCalls(seq.steps, seq.numSteps), EvDelay(seq.cycleDelay_ms), seq.cycleCount)

\* C6: a well-formed START line of R repetitions, delay D and N steps makes
\* exactly the R*N setElectrode calls it asks for, in step order and cycle
\* after cycle, each followed by its hold, with one delay of D after each
\* cycle but the last, and then replies OK and nothing after it; while it
\* runs it has made a prefix of these calls.  ArrayDriver::executeSequence
\* given a sequence makes the same calls in the same order, and none when
\* cycleCount is 0.
C6_SequenceRunsEveryStepOfEveryCycle ==
    /\ (Dispatched /\ WellFormedStart(disp.cmd)) =>
          IF disp.done
          THEN /\ trace = StartCalls(disp.cmd)
               /\ Replies("ERROR") = {}
               /\ Replies("OK") = {Len(out)}
          ELSE /\ pc = "seq"
               /\ IsPrefix(trace, StartCalls(disp.cmd))
               /\ Replies("OK") = {}
    /\ (lastOp.op = "executeSequence" /\ ~lastOp.a.null /\ lastOp.a.hasSteps) =>
          /\ IF pc = "idle"
             THEN trace = SequenceCalls(lastOp.a)
             ELSE IsPrefix(trace, SequenceCalls(lastOp.a))
          /\ lastOp.a.cycleCount = 0 => trace = <<>>

\* START|3|50|2|1,10|2,20|END has run: 3 cycles of 2 calls and 2 holds, and 2
\* delays between them.
C6_Witness ==
    /\ Done
    /\ disp.cmd = StartLine(3, 50, << <<1, 10>>, <<2, 20>> >>)
    /\ Len(trace) = 3 * 4 + 2
    /\ out[Len(out)] = sendOK

\* The header of a START line declares no repetitions or no steps, or more
\* than the protocol allows.
BadCounts(cmd) ==
    LET f == SplitOn(cmd, "|")
    IN  /\ Len(f) >= 2
        /\ f[1] = <<"S", "T", "A", "R", "T">>
        /\ \/ IsDecimal(f[2]) /\ (Dec(f[2]) = 0 \/ Dec(f[2]) > 1000)
           \/ Len(f) >= 4 /\ IsDecimal(f[4]) /\ (Dec(f[4]) = 0 \/ Dec(f[4]) >= MAX_STEPS + 1)

\* C7: a START line with 0 or more than 1000 repetitions, or with a declared
\* step count of 0 or of 257 or more, is answered with ERROR and nothing
\* else, and makes no setElectrode call: the bitmap, the pins and the engine
\* stay as they were.
C7_BadCountsRejected ==
    (Dispatched /\ BadCounts(disp.cmd)) =>
        /\ disp.done
        /\ Replies("ERROR") = {Len(out)}
        /\ Replies("OK") = {}
        /\ Untouched

C7_Witness ==
    /\ Done
    /\ disp.cmd = <<"S", "T", "A", "R", "T", "|", "1", "|", "0", "|", "2", "5", "7", "|", "1", ",", "1", "|", "E", "N", "D">>
    /\ out = <<Reply("ERROR", "Invalid steps count (1-%d)", <<MAX_STEPS>>)>>

\* C8: a dispatch that has sent an ERROR reply has made no driver call, and
\* the bitmap, the pins and the engine are as they were before the line.
C8_ErrorMeansUntouched ==
    (Dispatched /\ Replies("ERROR") # {}) => Untouched

\* A START line whose second step is out of range has been rejected.
C8_Witness ==
    /\ Done
    /\ disp.cmd = <<"S", "T", "A", "R", "T", "|", "2", "|", "0", "|", "2", "|", "1", ",", "1", "0", "|", "1", "4", "1", ",", "2", "0", "|", "E", "N", "D">>
    /\ Replies("ERROR") = {1}

\* A SET, ALL, ROW, COL or GET line with a field that is missing, empty, not
\* a decimal number, or out of its range.
Malformed(cmd) ==
    LET f == SplitOn(cmd, "|")
    IN  \/ f[1] = <<"S", "E", "T">> /\ Len(f) >= 2
           /\ ~(DecimalIn(f, 2, 1, NUM_ELECTRODES) /\ DecimalIn(f, 3, 0, 1))
        \/ f[1] = <<"A", "L", "L">> /\ Len(f) >= 2 /\ ~DecimalIn(f, 2, 0, 1)
        \/ f[1] = <<"R", "O", "W">> /\ Len(f) >= 2
           /\ ~(DecimalIn(f, 2, 0, NUM_ROWS - 1) /\ DecimalIn(f, 3, 0, 1))
        \/ f[1] = <<"C", "O", "L">> /\ Len(f) >= 2
           /\ ~(DecimalIn(f, 2, 0, NUM_COLS - 1) /\ DecimalIn(f, 3, 0, 1))
        \/ f[1] = <<"G", "E", "T">> /\ Len(f) >= 2 /\ ~DecimalIn(f, 2, 1, NUM_ELECTRODES)

\* C9: a SET, ALL, ROW, COL or GET line with a malformed or out-of-range
\* field is answered with ERROR and makes no driver call; an empty or
\* non-numeric field is not taken for 0.
C9_MalformedFieldsRejected ==
    (Done /\ Malformed(disp.cmd)) =>
        /\ Replies("ERROR") = {Len(out)}
        /\ Replies("OK") = {}
        /\ Untouched

UnknownCommand == sendError("Unknown command. Type 'HELP' for command list")

\* The terminal reply of a mutating command: OK or ERROR, exactly one, as the
\* last thing sent; ERROR only when nothing was carried out.
OneTerminalReply ==
    (Dispatched /\ \E lit \in MutatingPrefixes : StartsWith(Strip(disp.cmd), lit)) =>
        IF disp.done
        THEN /\ Replies("OK") \cup Replies("ERROR") = {Len(out)}
             /\ Replies("ERROR") # {} => trace = <<>>
        ELSE Replies("OK") \cup Replies("ERROR") = {}

\* C10 as stated: every mutating command sends exactly one terminal reply,
\* last, and every line that matches none of the prefixes is answered with
\* the unknown-command ERROR.
C10_OneTerminalReplyAndUnknownVerbError ==
    /\ OneTerminalReply
    /\ (Done /\ \A lit \in KnownPrefixes : ~StartsWith(Strip(disp.cmd), lit)) =>
          out = <<UnknownCommand>>

\* C10, amended: every mutating command sends exactly one terminal reply,
\* last; a line that has a character other than space and tab and matches
\* none of the prefixes is answered with the unknown-command ERROR; a line
\* of spaces and tabs only is dispatched and answered with nothing.
C10_OneTerminalReplyUnknownVerbErrorBlankSilent ==
    /\ OneTerminalReply
    /\ (Done /\ Strip(disp.cmd) # <<>>
             /\ \A lit \in KnownPrefixes : ~StartsWith(Strip(disp.cmd), lit)) =>
          out = <<UnknownCommand>> /\ Untouched
    /\ (Done /\ Strip(disp.cmd) = <<>>) => out = <<>> /\ Untouched

\* An unknown verb after a leading blank has been answered.
C10_Witness ==
    /\ Done
    /\ disp.cmd = <<" ", "F", "O", "O">>
    /\ out = <<UnknownCommand>>

\* The line without its terminator.
Body(line) == SubSeq(line, 1, Len(line) - 1)

\* The line has more bytes before its terminator than the buffer holds.
OverCap(line) == Len(Body(line)) > UART_CMD_BUFFER_SIZE - 1

\* C11: a line longer than the cap of the buffer draws the buffer-overflow
\* ERROR once it has been fed, and nothing of it is dispatched; a line that
\* fits, fed after it, is dispatched with exactly its own bytes.
C11_OverlongLineNeverDispatched ==
    /\ Dispatched => ~OverCap(disp.line)
    /\ (~Dispatched /\ wire = <<>> /\ OverCap(disp.line)) =>
          sendError("Buffer overflow") \in {out[i] : i \in 1 .. Len(out)}
    /\ (Dispatched /\ ~OverCap(disp.line)) => disp.cmd = Body(disp.line)

ActuatorCalls == {"setElectrode", "setElectrodeByNumber", "setAllElectrodesHigh",
                  "setAllElectrodesLow", "setRowElectrodes", "setColElectrodes",
                  "setPattern", "init", "executeSequence"}

\* A step that switches electrodes because a call or a command asked for it.
ActuationAsked ==
    \/ lastOp'.op \in ActuatorCalls
    \/ lastOp'.op = "processCommands" /\ \E i \in 1 .. Len(trace') : trace'[i].e \in ActuatorCalls

\* C13: stopSequence(), called directly or by the STOP command, leaves
\* isSequenceRunning() false; and from a state in which no sequence runs, no
\* step other than a new executeSequenceAsync sets it running or moves the
\* step index, and the bitmap and the pins change only in a step that was
\* asked to switch electrodes, never through the engine.
C13_StoppedEngineStaysStopped ==
    [][/\ lastOp'.op = "stopSequence" => ~sequenceRunning'
       /\ (lastOp'.op = "processCommands" /\ disp'.done /\ disp'.cmd = <<"S", "T", "O", "P">>) =>
             ~sequenceRunning'
       /\ (~sequenceRunning /\ lastOp'.op # "executeSequenceAsync") =>
             /\ ~sequenceRunning'
             /\ currentStep' = currentStep
             /\ drvVars' # drvVars => ActuationAsked]_vars

\* A sequence was started, stopped while it ran, and is reported idle by the
\* call after the stop.
C13_Witness ==
    /\ lastOp.op = "isSequenceRunning" /\ ~lastOp.ret
    /\ accepted # NullSequence
    /\ nCalls = 3

\* A null sequence, a null step list, or no steps.
NothingToRun(sequence) == sequence.null \/ ~sequence.hasSteps \/ sequence.numSteps = 0

\* C14: executeSequenceAsync given a null sequence, a null step list or a
\* sequence of no steps leaves the engine as it found it (not running, the
\* sequence, step and start time unchanged); executeSequence given the same
\* makes no setElectrode call.
C14_NothingToRunIsNoOp ==
    /\ (lastOp.op = "executeSequenceAsync" /\ NothingToRun(lastOp.a)) => Engine = lastOp.c
    /\ (lastOp.op = "executeSequence" /\ NothingToRun(lastOp.a)) =>
          \A i \in 1 .. Len(trace) : trace[i].e # "setElectrode"

\* C15: a sequence started with executeSequenceAsync and then polled again
\* and again is eventually finished: the engine is idle again without
\* stopSequence having been called.
C15_StartedSequenceFinishes == sequenceRunning ~> ~sequenceRunning

\* C16: executeSequenceAsync given a sequence with a step list and at least
\* one step leaves the engine running that sequence at step 0, the start
\* time being the tick it read, and makes no driver call: the bitmap and
\* every row and column line are as they were before the call.
C16_AsyncStartRecordsAndDoesNotActuate ==
    [][(nCalls' = nCalls + 1 /\ lastOp'.op = "executeSequenceAsync"
                             /\ ~NothingToRun(lastOp'.a)) =>
          /\ sequenceRunning'
          /\ currentStep' = 0
          /\ currentSequence' = lastOp'.a
          /\ stepStartTime' = lastOp'.b
          /\ drvVars' = drvVars
          /\ trace' = <<>>]_vars

\* A two-step sequence has been started at tick 1000 with every electrode on.
C16_Witness ==
    /\ lastOp.op = "executeSequenceAsync"
    /\ currentSequence = Sequence(TwoSteps, 2, 1, 0)
    /\ sequenceRunning /\ stepStartTime = 1000
    /\ electrodeState = AllCells(TRUE)

\* C17: a call of stopSequence(), and the dispatch of a STOP command, leave
\* the bitmap and every row and column line as they were, and the start
\* time too, whether a sequence was running or not; the engine is idle
\* afterwards.
C17_StopLeavesElectrodesAlone ==
    [][(\/ nCalls' = nCalls + 1 /\ lastOp'.op = "stopSequence"
        \/ cmdComplete /\ disp'.done /\ disp'.cmd = <<"S", "T", "O", "P">>) =>
          /\ drvVars' = drvVars
          /\ stepStartTime' = stepStartTime
          /\ ~sequenceRunning' /\ currentStep' = 0 /\ currentSequence' = NullSequence]_vars

\* STOP has stopped a running sequence with every electrode on.
C17_Witness ==
    /\ Done
    /\ disp.cmd = <<"S", "T", "O", "P">>
    /\ out = <<sendResponse("Sequence stopped\n", <<>>), sendOK>>
    /\ electrodeState = AllCells(TRUE)
    /\ ~sequenceRunning /\ accepted # NullSequence

\* C18: while the engine is idle it holds no sequence (currentSequence is
\* null), and while it runs it holds the sequence given to the last
\* executeSequenceAsync that passed the null checks.
C18_NoSequenceHeldWhileIdle ==
    /\ ~sequenceRunning => currentSequence = NullSequence
    /\ sequenceRunning => currentSequence = accepted /\ ~accepted.null

\* A sequence was started and stopped, and a blocking run has returned since.
C18_Witness ==
    /\ ~sequenceRunning /\ currentSequence = NullSequence
    /\ accepted # NullSequence
    /\ lastOp.op = "executeSequence" /\ pc = "idle" /\ trace # <<>>

\* C19: setElectrode changes its row line and its column line in one step:
\* at no moment of a call has the row line taken its new level while the
\* column line is not yet at its own.
C19_RowAndColumnChangeTogether ==
    pc \in {"rowStored", "colStored"} =>
        ~(rowLevel[run.row] = run.state /\ colLevel[run.col] # ~run.state)

\* C20: processByte never waits on the transport: no call of it, whatever the
\* byte and whatever the buffer holds, makes a blocking transmit. out grows
\* by one reply for each call of sendResponse, which is the blocking
\* HAL_UART_Transmit with its timeout of 1000 ms.
C20_ProcessByteTransmitsNothing ==
    [][(wire # <<>> /\ ~cmdComplete /\ wire' = Tail(wire)) => out' = out]_vars

\* What a call of setElectrode, setAllElectrodesHigh or setAllElectrodesLow
\* that made pin writes has to leave behind: the lines it wrote at the levels
\* of its state, and the bitmap cells it addresses at that state.
PinsAndStateAgree(call, es, rl, cl) ==
    IF call.op = "setElectrode"
    THEN call.writes = 0
         \/ (rl[call.a] = call.c /\ cl[call.b] = ~call.c /\ es[call.a][call.b] = call.c)
    ELSE /\ rl = [r \in Rows |-> call.c]
         /\ cl = [c \in Cols |-> ~call.c]
         /\ es = AllCells(call.c)

\* C21: in setElectrode and in setAllElectrodesHigh/Low the bitmap is written
\* only after the pin writes of the call have been made and in a step that
\* writes no pin, and the call does not return before the bitmap is written:
\* at the return the cells addressed hold the state the pins were written for.
C21_PinsFirstThenStateNeverSkipped ==
    [][/\ electrodeState' # electrodeState =>
            /\ pc \in {"colStored", "allStored"}
            /\ rowLevel' = rowLevel /\ colLevel' = colLevel
       /\ (pc # "idle" /\ pc' = "idle") =>
            PinsAndStateAgree(lastOp', electrodeState', rowLevel', colLevel')]_vars

\* setElectrode(9, 13, true) has returned, called in the state init() leaves.
C21_Witness ==
    /\ pc = "idle"
    /\ lastOp.op = "setElectrode" /\ lastOp.a = 9 /\ lastOp.b = 13 /\ lastOp.c
    /\ lastOp.writes = 2
    /\ electrodeState = [AllCells(FALSE) EXCEPT ![9][13] = TRUE]
    /\ colLevel = [c \in Cols |-> c # 13]

\* C22: setRowElectrodes(row, s) with row in 0..9 leaves every cell of the row
\* at s and every cell of the other rows as it was; setColElectrodes(col, s)
\* with col in 0..13 does the same for the column; with row >= 10 or
\* col >= 14 the call changes no cell and no line and writes no pin.
C22_RowAndColumnWritesStayInTheirLine ==
    [][/\ (lastOp'.op = "setRowElectrodes" /\ nCalls' = nCalls + 1) =>
            IF lastOp'.a < NUM_ROWS
            THEN \A r \in Rows, c \in Cols :
                    electrodeState'[r][c] =
                        IF r = lastOp'.a THEN lastOp'.c ELSE electrodeState[r][c]
            ELSE UNCHANGED drvVars /\ lastOp'.writes = 0
       /\ (lastOp'.op = "setColElectrodes" /\ nCalls' = nCalls + 1) =>
            IF lastOp'.b < NUM_COLS
            THEN \A r \in Rows, c \in Cols :
                    electrodeState'[r][c] =
                        IF c = lastOp'.b THEN lastOp'.c ELSE electrodeState[r][c]
            ELSE UNCHANGED drvVars /\ lastOp'.writes = 0]_nCalls

\* Row 9 has been turned on while cell (0, 0) of another row was on and the
\* rest of that row off.
C22_Witness ==
    /\ lastOp.op = "setRowElectrodes" /\ lastOp.a = 9 /\ lastOp.c
    /\ lastOp.writes = 2 * NUM_COLS
    /\ electrodeState = [r \in Rows |-> [c \in Cols |-> r = 9 \/ (r = 0 /\ c = 0)]]

\* C23: getPattern called right after setPattern(p) gives p; getPattern and
\* getElectrodeState change no bitmap cell and no line and write no pin; and
\* getElectrodeState returns false for row >= 10 or col >= 14.
C23_PatternRoundTripAndPureGetters ==
    [][/\ (lastOp.op = "setPattern" /\ lastOp'.op = "getPattern" /\ nCalls' = nCalls + 1)
            => lastOp'.ret = lastOp.a
       /\ (lastOp'.op \in {"getPattern", "getElectrodeState"} /\ nCalls' = nCalls + 1)
            => UNCHANGED drvVars /\ lastOp'.writes = 0
       /\ (lastOp'.op = "getElectrodeState" /\ nCalls' = nCalls + 1
           /\ (lastOp'.a >= NUM_ROWS \/ lastOp'.b >= NUM_COLS))
            => lastOp'.ret = FALSE]_nCalls

\* getPattern has returned the checkerboard that setPattern wrote.
C23_Witness ==
    /\ lastOp.op = "getPattern" /\ lastOp.ret = Checkerboard
    /\ electrodeState = Checkerboard
    /\ nCalls >= 2

AllOff ==
    /\ \A r \in Rows : ~rowLevel[r]
    /\ \A c \in Cols : colLevel[c]
    /\ electrodeState = AllCells(FALSE)

TestCalls ==
    [i \in 1 .. 3 * NUM_ELECTRODES |->
        LET n == (i - 1) \div 3 + 1
            k == (i - 1) % 3
        IN  IF k = 0 THEN Ev("setElectrodeByNumber", n, 0, TRUE)
            ELSE IF k = 1 THEN EvDelay(100)
            ELSE Ev("setElectrodeByNumber", n, 0, FALSE)]

TrueCells(es) == {rc \in Rows \X Cols : es[rc[1]][rc[2]]}

TestDispatched == Dispatched /\ StartsWith(Strip(disp.cmd), <<"T", "E", "S", "T">>)

\* C25: the TEST command makes the calls of TestCalls and no other, in this
\* order, its loop counter staying in 1..141, and when it has made them all
\* it replies "Test complete" and OK; when every bitmap cell was false before
\* TEST, at most one cell is true at any moment of the test and none after it.
C25_TestPulsesEachElectrodeInTurn ==
    TestDispatched =>
        /\ ~disp.done =>
              /\ pc \in {"test", "testHigh"}
              /\ run.step \in 1 .. NUM_ELECTRODES + 1
              /\ Len(trace) = 3 * (run.step - 1) + (IF pc = "testHigh" THEN 2 ELSE 0)
              /\ \A i \in 1 .. Len(trace) : trace[i] = TestCalls[i]
        /\ disp.done =>
              /\ pc = "idle"
              /\ trace = TestCalls
              /\ Len(out) = 3 /\ out[2] = sendResponse("Test complete\n", <<>>)
              /\ out[3] = sendOK
        /\ disp.before[1] = AllCells(FALSE) =>
              /\ Cardinality(TrueCells(electrodeState)) <= 1
              /\ disp.done => electrodeState = AllCells(FALSE)

\* The test has ended, having switched electrodes on and off.
C25_Witness ==
    /\ TestDispatched /\ disp.done
    /\ Len(trace) = 3 * NUM_ELECTRODES
    /\ disp.before[1] = AllCells(FALSE)
    /\ mapSource = <<1, 1, [row |-> 0, col |-> 0]>>

\* The non-empty lines of a byte stream that have their terminator, in order.
RECURSIVE LinesOf(_, _)
LinesOf(bytes, line) ==
    IF bytes = <<>> THEN <<>>
    ELSE IF Head(bytes) \in {"\n", "\r"}
    THEN (IF line = <<>> THEN <<>> ELSE <<line>>) \o LinesOf(Tail(bytes), <<>>)
    ELSE LinesOf(Tail(bytes), Append(line, Head(bytes)))

\* The bytes of the stream that processByte has been given.
Arrived == SubSeq(disp.line, 1, Len(disp.line) - Len(wire))

IsParseCommand(ev) == ev.e = "parseCommand"

\* The commands parseCommand has been given, in order.
Commands ==
    LET calls == SelectSeq(trace, IsParseCommand)
    IN  [i \in 1 .. Len(calls) |-> calls[i].a]

\* C26: a line feed or carriage return given to processByte while
\* cmdBufferIndex is 0 changes nothing: the flag, the index and the buffer
\* stay as they are, nothing is sent and nothing dispatched. Blank lines and
\* the second byte of a CR LF pair therefore never make a command: there are
\* never more dispatches than non-empty lines have arrived, and nothing is
\* sent except by a dispatch.
C26_TerminatorOnEmptyBufferIgnored ==
    [][/\ (wire # <<>> /\ wire' = Tail(wire) /\ Head(wire) \in {"\n", "\r"}
           /\ cmdBufferIndex = 0) =>
             UNCHANGED <<rxVars, out, trace, drvVars, engineVars, pc>>
       /\ Len(Commands') <= Len(LinesOf(Arrived', <<>>))
       /\ out' # out => Len(Commands') = Len(Commands) + 1]_vars

\* Two lines ended by CR LF and LF with a blank line's worth of terminators
\* between them have arrived, and both have been dispatched and answered.
C26_Witness ==
    /\ disp.line = <<"A", "L", "L", "|", "0", "\r", "\n", "A", "L", "L", "|", "1", "\n">>
    /\ wire = <<>> /\ pc = "idle" /\ ~cmdComplete
    /\ Commands = <<<<"A", "L", "L", "|", "0">>, <<"A", "L", "L", "|", "1">>>>
    /\ Len(out) = 4

\* A dispatched command that is none of START, SET, ALL, ROW, COL, TEST and
\* STOP: GET, STATUS, HELP, RELOAD, or a line no command matches.
QueryDispatched ==
    Done /\ ~\E lit \in MutatingPrefixes : StartsWith(Strip(disp.cmd), lit)

\* GET|n with n a decimal number in 1..140.
WellFormedGet(cmd) ==
    LET f == SplitOn(cmd, "|")
    IN  Len(f) = 2 /\ f[1] = <<"G", "E", "T">> /\ DecimalIn(f, 2, 1, NUM_ELECTRODES)

\* What GET|n has to send: the number, the address the map gives for it and
\* the state getElectrodeState reports there (1 for HIGH, 0 for LOW), then OK.
GetReport(cmd) ==
    LET n == Dec(SplitOn(cmd, "|")[2])
        at == electrodeMap[n - 1]
    IN  <<sendResponse("Electrode %d (Row %d, Col %d): %s\n",
                       <<n, at.row, at.col,
                         IF getElectrodeState(electrodeState, at.row, at.col) THEN 1 ELSE 0>>),
          sendOK>>

\* C27: GET, STATUS, HELP, RELOAD and lines that match no command make no
\* driver call and leave the bitmap, every line, the engine and the electrode
\* map as they were; RELOAD ends with ERROR: Not implemented; and GET|n with
\* n in 1..140 sends the state of the cell the map gives for n, then OK.
C27_QueriesChangeNothing ==
    [][(cmdComplete /\ QueryDispatched') =>
          /\ UNCHANGED <<drvVars, engineVars, mapVars>>
          /\ trace' = <<>>
          /\ StartsWith(Strip(disp'.cmd), <<"R", "E", "L", "O", "A", "D">>) =>
                out' # <<>> /\ out'[Len(out')] = sendError("Not implemented")
          /\ WellFormedGet(disp'.cmd) => out' = GetReport(disp'.cmd)]_cmdComplete

\* GET|140 has reported HIGH while a sequence is running.
C27_Witness ==
    /\ QueryDispatched
    /\ disp.cmd = <<"G", "E", "T", "|", "1", "4", "0">>
    /\ out[1].args = <<140, 9, 13, 1>>
    /\ sequenceRunning

\* C28: whatever the interleaving of processByte and processCommands, every
\* non-empty terminated line is dispatched once, with its own bytes, in the
\* order of arrival: the commands dispatched so far are the first of the lines
\* that have arrived, and when the stream has ended and the main loop has
\* nothing pending, they are all of them.
C28_EveryLineDispatchedOnceAsSent ==
    LET lines == LinesOf(Arrived, <<>>)
    IN  /\ Len(Commands) <= Len(lines)
        /\ \A i \in 1 .. Len(Commands) : Commands[i] = lines[i]
        /\ (wire = <<>> /\ pc = "idle" /\ ~cmdComplete) => Len(Commands) = Len(lines)

\* C29: through the protocol the engine never runs: isSequenceRunning() is
\* false in every state, STATUS reports IDLE, STOP finds nothing to stop and
\* calls nothing; and while the sequence of a START command executes, nothing
\* else is dispatched: only the sequence's own driver calls are made and
\* nothing is sent after "Executing sequence...", whatever bytes arrive.
C29_ProtocolNeverStartsTheEngine ==
    /\ ~isSequenceRunning(Engine)
    /\ currentSequence = NullSequence
    /\ (Done /\ StartsWith(Strip(disp.cmd), <<"S", "T", "A", "T", "U", "S">>)) =>
          /\ Len(out) = 4
          /\ out[2] = sendResponse("Sequence: IDLE\n", <<>>)
    /\ (Done /\ StartsWith(Strip(disp.cmd), <<"S", "T", "O", "P">>)) =>
          /\ out = <<sendResponse("No sequence running\n", <<>>), sendOK>>
          /\ Untouched
    /\ pc = "seq" =>
          /\ Dispatched /\ ~disp.done
          /\ StartsWith(disp.cmd, <<"S", "T", "A", "R", "T", "|">>)
          /\ out = <<sendResponse("Executing sequence...\n", <<>>)>>
          /\ \A i \in 1 .. Len(trace) : trace[i].e \in {"setElectrode", "HAL_Delay"}

\* The whole STOP line has arrived while the sequence of START is in its
\* second cycle.
C29_Witness ==
    /\ pc = "seq" /\ run.cycle = 1
    /\ wire = <<>>
    /\ SubSeq(disp.line, Len(disp.line) - 4, Len(disp.line)) = <<"S", "T", "O", "P", "\n">>
    /\ disp.cmd = StartLine(2, 5, << <<1, 10>>, <<2, 20>> >>)

\* The electrode ids of a well-formed START line, in step order.
StartIds(cmd) ==
    LET f == SplitOn(cmd, "|")
    IN  [i \in 1 .. Dec(f[4]) |-> Dec(SplitOn(f[4 + i], ",")[1])]

\* C30: every step built from a START line switches its electrode on, none
\* off: the steps of the sequence under way all have state true, and when a
\* START has been carried out and answered OK, the bitmap is true at the
\* address the map gives for each electrode of the step list, and every cell
\* that was true before the command is true still.
C30_StartOnlyTurnsOn ==
    /\ (pc = "seq" /\ run.caller = "uart") =>
          \A i \in 1 .. run.seq.numSteps : run.seq.steps[i].state
    /\ (Done /\ WellFormedStart(disp.cmd) /\ Replies("ERROR") = {}) =>
          /\ \A i \in DOMAIN StartIds(disp.cmd) :
                LET at == electrodeMap[StartIds(disp.cmd)[i] - 1]
                IN  getElectrodeState(electrodeState, at.row, at.col)
          /\ \A r \in Rows, c \in Cols : disp.before[1][r][c] => electrodeState[r][c]

\* C31: a host that sends SET|a|s, then SET commands addressed to another
\* electrode b, then GET|a, is told state s for a: when the GET that ends the
\* stream has been answered, the state it reports is the one the first line
\* asked for.
C31_WriteToOneLeavesTheOther ==
    LET first == LinesOf(disp.line, <<>>)[1]
        st == IF SplitOn(first, "|")[3] = <<"1">> THEN 1 ELSE 0
    IN  (Done /\ wire = <<>> /\ WellFormedGet(disp.cmd)) =>
            /\ Len(out) = 2
            /\ out[1].args[1] = Dec(SplitOn(disp.cmd, "|")[2])
            /\ out[1].args[4] = st
            /\ out[2] = sendOK

====
